---- MODULE Spec2Model ----
(***************************************************************************)
(* Procedural world-generation pipeline of the biome engine: seeded noise, *)
(* TerrainGenerator (height / climate / biome grids), ErosionSimulator     *)
(* (droplet hydraulic erosion and thermal relaxation) and BiomeManager     *)
(* (rule-based classification and boundary transitions).                   *)
(*                                                                         *)
(* Numbers.  The program computes in IEEE doubles.  The model computes in  *)
(* fixed point: the real r is the integer r * ONE, products and quotients  *)
(* are rescaled and floored.  A non-finite result (x / 0) is the value NaN *)
(* which every arithmetic operation propagates and every comparison        *)
(* answers FALSE for, as JavaScript's NaN does.                            *)
(***************************************************************************)
EXTENDS Integers, Sequences, FiniteSets, TLC

VARIABLES
    \* TerrainGenerator
    tgStatus,       \* "none" | "ready" | "rejected" (the constructor threw)
    settings,       \* this.settings
    noisePerm,      \* the instance this.noiseGen.noise2D is
    heap,           \* the four array objects the constructor allocates, by reference
    firstData,      \* what the first generate() returned: references, cells then
    lastData,       \* what the latest generate() returned
    genCount,       \* generate() calls so far
    updCount,       \* updateSettings() calls so far
    changedSinceFirst, \* updateSettings() was called after the first generate()
    lastQuery,      \* the latest point query and its outcome
    lastError,      \* the exception the latest call ended with, "" for none
    tgEvents,       \* the events the latest generate() emitted, in order
    \* NoiseAlgorithms instances
    na,             \* per NoiseAlgorithms instance: constructed, seed passed, noise2D
    naSample,       \* per instance: its latest fractalNoise2D call and result
    \* BiomeManager
    bmStatus,       \* "none" | "ready"
    biomeRules,     \* this.biomeRules, in insertion order
    currentBiome,   \* this.currentBiome
    terrainData,    \* this.terrainData (set |-> FALSE for null)
    transitionBuffer, \* this.transitionBuffer
    classGrid,      \* per cell, the biomeType generateBiomeTransitions computed for it
    transCalls,     \* generateBiomeTransitions() calls so far
    bmCall,         \* the call in progress: its arguments, result and notifications
    \* ErosionSimulator
    esStatus,       \* "none" | "idle" | "hydraulic" | "thermal": where simulate() is
    esSettings,     \* the fields the constructor copies from its settings
    esRows,         \* every row array allocated so far, by identity
    esHeightMap,    \* this.heightMap: the identities of its rows
    esInput,        \* the argument of the latest simulate(): rows and contents
    esFirst,        \* the grid the first simulate() returned, as it was then
    esLast,         \* the grid the latest simulate() returned, as it was then
    droplet,        \* the droplet of the current hydraulic iteration
    esI,            \* i of hydraulicErosion's loop
    esIter,         \* iter of thermalErosion's loop
    simCount,       \* simulate() calls so far
    spawned,        \* droplets spawned so far
    esError,        \* what the latest simulate() threw, "" for none
    esEvents,       \* the 'erosionProgress' payloads of the latest simulate(), each
                    \* i / dropletCount kept as the pair <<i, dropletCount>>
    esOp,           \* the latest direct deposit / erode: arguments, grid before
    \* Engine
    enStatus,       \* "none" | "ready" (getInstance() has constructed it)
    isRunning,      \* this.isRunning
    updateInterval, \* this.updateInterval: a timer's number, 0 for null
    enTimers,       \* every timer setInterval() made: its interval, 0 once cleared
    lastFrameTime,  \* this.lastFrameTime
    targetFPS,      \* this._targetFPS
    frameInterval,  \* this._frameInterval, in hundredths of a millisecond
    enInit,         \* where the initialize() in flight is: "idle" | the await it is at
    enContentInit,  \* contentManager.isInitialized
    enProcInit,     \* proceduralSystem.isInitialized
    enWeatherInit,  \* weatherSystem.isInitialized
    enTimeRunning,  \* timeManager.isRunning
    enUpdates,      \* update() calls that passed the isRunning check
    enError,        \* what the latest call threw, "" for none
    enListening,    \* the listeners of setupEventListeners() are attached
    \* ContentManager
    cmStatus,       \* "none" | "ready"
    cmAssets,       \* this.assets: per id, whether it has an entry
    cmLoading,      \* this.loadingPromises: per id, whether it has an entry
    cmTimers,       \* every setTimeout() of loadAsset: <<id, "pending" | "fired">>
    cmUnloaded,     \* per id: unloadAsset(id) returned and no loadAsset(id) since
    cmEvents,       \* the events emitted so far, in order: <<name, id>>
    \* TimeManager (the state-based one)
    tmStatus,       \* "none" | "ready"
    tmCurrentTime,  \* this.state.currentTime, in thousandths of a minute
                    \* (state.dayNightCycle is this over MINUTES_PER_DAY throughout)
    tmSpeed,        \* this.state.speed, in hundredths
    tmIsPaused,     \* this.state.isPaused
    tmElapsed,      \* Date.now() - this.lastUpdate, in milliseconds
    tmAck           \* the latest 'timeControlAck': <<command, success>>

noiseVars == <<na, naSample>>

biomeVars == <<bmStatus, biomeRules, currentBiome, terrainData, transitionBuffer,
               classGrid, transCalls, bmCall>>

terrainVars == <<tgStatus, settings, noisePerm, heap, firstData, lastData,
                 genCount, updCount, changedSinceFirst, lastQuery, lastError,
                 tgEvents>>

erosionVars == <<esStatus, esSettings, esRows, esHeightMap, esInput, esFirst, esLast,
                 droplet, esI, esIter, simCount, spawned, esError, esEvents, esOp>>

engineVars == <<enStatus, isRunning, updateInterval, enTimers, lastFrameTime, targetFPS,
                frameInterval, enInit, enContentInit, enProcInit, enWeatherInit,
                enTimeRunning, enUpdates, enError, enListening>>

contentVars == <<cmStatus, cmAssets, cmLoading, cmTimers, cmUnloaded, cmEvents>>

timeVars == <<tmStatus, tmCurrentTime, tmSpeed, tmIsPaused, tmElapsed, tmAck>>

vars == <<terrainVars, noiseVars, biomeVars, erosionVars, engineVars, contentVars,
          timeVars>>

\* ------------------------------------------------------------ bounds ----
\* Largest grid width / height a TerrainGenerator is constructed with.
MaxDim == 2
\* Calls of updateSettings() explored on one generator.
MaxUpdates == 1
\* Calls of generate() explored on one generator.
MaxGenerates == 2
\* Distinct permutation tables createNoise2D() can draw from Math.random.
NumPerms == 5
\* Largest sample coordinate passed to a noise query.
MaxCoord == 1
\* Width and height of the terrain handed to the BiomeManager.
BiomeDim == 4
\* Calls of generateBiomeTransitions() explored on one BiomeManager.
MaxTransitionCalls == 1
\* Width and height of the ErosionSimulator's grid.
EroDim == 3
\* Droplets spawned on one ErosionSimulator, and the largest erosionIterations
\* setting (the least that has a thermal pass).
MaxDroplets == 5
\* Heights, speeds and sediment loads are followed up to this magnitude
\* (in hundredths).
MaxMagnitude == 4000
\* simulate() calls explored on one ErosionSimulator.
MaxSimulates == 2
\* Direct deposit / erode calls explored on one grid.
MaxOps == 1
\* Largest erosionIterations of a run followed for its progress notifications.
MaxProgress == 2001
\* Timers one Engine schedules.
MaxTimers == 3
\* Latest time Date.now() returns to the Engine.
MaxEngineTime == 1
\* Engine update() calls followed.
MaxEngineUpdates == 2
\* Asset ids a ContentManager is used with.
NumAssets == 2
\* loadAsset() timers one ContentManager sets.
MaxLoads == 3
\* Events one ContentManager emits.
MaxContentEvents == 5
\* Longest real time between two update() calls of a TimeManager, in
\* milliseconds.
MaxElapsed == 10000

\* ------------------------------------------------------- fixed point ----
ONE == 100
NaN == 0 - 999999

IsNum(a) == a # NaN

Max(a, b) == IF a >= b THEN a ELSE b

Min(a, b) == IF a <= b THEN a ELSE b

FAdd(a, b) == IF IsNum(a) /\ IsNum(b) THEN a + b ELSE NaN

FSub(a, b) == IF IsNum(a) /\ IsNum(b) THEN a - b ELSE NaN

FMul(a, b) == IF IsNum(a) /\ IsNum(b) THEN (a * b) \div ONE ELSE NaN

FDiv(a, b) == IF IsNum(a) /\ IsNum(b) /\ b # 0 THEN (a * ONE) \div b ELSE NaN

FAbs(a) == IF ~IsNum(a) THEN NaN ELSE IF a < 0 THEN 0 - a ELSE a

FLt(a, b) == IsNum(a) /\ IsNum(b) /\ a < b

\* Math.max / Math.min: NaN if either argument is.
FMax(a, b) == IF IsNum(a) /\ IsNum(b) THEN Max(a, b) ELSE NaN

FMin(a, b) == IF IsNum(a) /\ IsNum(b) THEN Min(a, b) ELSE NaN

\* Math.floor, to a whole number of cells.
Floor(a) == IF IsNum(a) THEN a \div ONE ELSE NaN

RECURSIVE SqrtSearch(_, _, _)
SqrtSearch(n, lo, hi) ==
    IF lo >= hi THEN lo
    ELSE LET mid == (lo + hi + 1) \div 2
         IN  IF mid * mid <= n THEN SqrtSearch(n, mid, hi)
                               ELSE SqrtSearch(n, lo, mid - 1)

\* Math.sqrt: NaN for NaN and for a negative argument.
FSqrt(a) == IF ~IsNum(a) \/ a < 0 THEN NaN ELSE SqrtSearch(a * ONE, 0, Min(a * ONE, 46340))

\* Math.cos(t * Math.PI) for t in [-1/2, 1/2], by the parabola 1 - 4 t^2
\* (1 at the equator t = 0, 0 at both poles).
CosPi(t) == FSub(ONE, 4 * FMul(t, t))

\* ------------------------------------------------------------- noise ----
\* The instances createNoise2D() can return.  Called without an argument it
\* builds its permutation table from Math.random, so which instance a
\* constructor gets is a free choice.
Perms == 1..NumPerms

\* noise2D of one instance: a fixed function of the sample point with
\* values in [-1, 1].
Noise2D(perm, sx, sy) ==
    LET kx == IF IsNum(sx) THEN sx ELSE 3
        ky == IF IsNum(sy) THEN sy ELSE 5
    IN  (((perm * 31 + kx * 7 + ky * 13) % 5) * (ONE \div 2)) - ONE

\* The per-octave sample: the raw noise (fractal), (1 - |n|)^2 (ridged),
\* |n| (billow).
OctaveSample(kind, n) ==
    CASE kind = "fractal" -> n
      [] kind = "ridged"  -> FMul(FSub(ONE, FAbs(n)), FSub(ONE, FAbs(n)))
      [] kind = "billow"  -> FAbs(n)

\* Mutant: the accumulated value is returned without the division by the
\* accumulated amplitude.
OctaveSum_Unnormalised(kind, perm, x, y, octaves, persistence, lacunarity, scale) ==
    LET amp[i \in 0..Max(octaves, 0)] ==
            IF i = 0 THEN ONE ELSE FMul(amp[i - 1], persistence)
        freq[i \in 0..Max(octaves, 0)] ==
            IF i = 0 THEN ONE ELSE FMul(freq[i - 1], lacunarity)
        sample(i) == OctaveSample(kind, Noise2D(perm, FDiv(x * freq[i], scale),
                                                      FDiv(y * freq[i], scale)))
        val[i \in 0..Max(octaves, 0)] ==
            IF i = 0 THEN 0 ELSE FAdd(val[i - 1], FMul(sample(i - 1), amp[i - 1]))
    IN  val[Max(octaves, 0)]

\* for (i = 0; i < octaves; i++) { sample; noiseValue += sample * amplitude;
\* amplitudeSum += amplitude; amplitude *= persistence; frequency *= lacunarity }
\* return noiseValue / amplitudeSum.
OctaveSum(kind, perm, x, y, octaves, persistence, lacunarity, scale) ==
    LET amp[i \in 0..Max(octaves, 0)] ==
            IF i = 0 THEN ONE ELSE FMul(amp[i - 1], persistence)
        freq[i \in 0..Max(octaves, 0)] ==
            IF i = 0 THEN ONE ELSE FMul(freq[i - 1], lacunarity)
        sample(i) == OctaveSample(kind, Noise2D(perm, FDiv(x * freq[i], scale),
                                                      FDiv(y * freq[i], scale)))
        val[i \in 0..Max(octaves, 0)] ==
            IF i = 0 THEN 0 ELSE FAdd(val[i - 1], FMul(sample(i - 1), amp[i - 1]))
        sum[i \in 0..Max(octaves, 0)] ==
            IF i = 0 THEN 0 ELSE FAdd(sum[i - 1], amp[i - 1])
    IN  FDiv(val[Max(octaves, 0)], sum[Max(octaves, 0)])

fractalNoise2D(perm, x, y, octaves, persistence, lacunarity, scale) ==
    OctaveSum("fractal", perm, x, y, octaves, persistence, lacunarity, scale)

ridgedNoise2D(perm, x, y, octaves, persistence, lacunarity, scale) ==
    OctaveSum("ridged", perm, x, y, octaves, persistence, lacunarity, scale)

billowNoise2D(perm, x, y, octaves, persistence, lacunarity, scale) ==
    OctaveSum("billow", perm, x, y, octaves, persistence, lacunarity, scale)

\* ---------------------------------------------------- TerrainSettings ----
DEFAULT_TERRAIN_SETTINGS ==
    [ scale |-> ONE, width |-> 256, height |-> 256, seed |-> "biome-default-seed",
      baseOctaves |-> 6, basePersistence |-> 50, baseLacunarity |-> 200,
      baseScale |-> 100 * ONE,
      mountainOctaves |-> 4, mountainPersistence |-> 50, mountainLacunarity |-> 200,
      mountainScale |-> 150 * ONE, mountainWeight |-> 35,
      oceanOctaves |-> 2, oceanPersistence |-> 60, oceanLacunarity |-> 200,
      oceanScale |-> 200 * ONE, oceanLevel |-> 40,
      heightThresholds |-> [ deepOcean |-> 20, ocean |-> 40, beach |-> 45,
                             lowland |-> 55, hills |-> 70, mountains |-> 85,
                             peaks |-> 95 ],
      temperatureScale |-> 250 * ONE, humidityScale |-> 300 * ONE,
      temperatureOffset |-> 0, humidityOffset |-> 20 ]

\* { ...base, ...part }
Merge(base, part) ==
    [k \in DOMAIN base |-> IF k \in DOMAIN part THEN part[k] ELSE base[k]]

\* The Partial<TerrainSettings> values callers pass: grid dimensions
\* (non-positive ones included) and one optional parameter override.
NoOverride == [k \in {} |-> 0]

Variants == 1..5

Variant(k) ==
    CASE k = 1 -> NoOverride
      [] k = 2 -> [baseScale |-> 0]
      [] k = 3 -> [basePersistence |-> 0]
      [] k = 4 -> [mountainWeight |-> ONE]
      [] k = 5 -> [oceanLevel |-> 90]

DimInputs == (0 - 1)..MaxDim

\* ---------------------------------------------------- TerrainGenerator ----
Refs == {"heightMap", "temperatureMap", "humidityMap", "biomeMap"}

\* Array(height).fill(0).map(() => Array(width).fill(0))
ZeroGrid(width, height) == [y \in 1..height |-> [x \in 1..width |-> 0]]

\* Array(n) throws RangeError for a negative length; the inner Array(width)
\* runs once per row, so only when height > 0.
ConstructorThrows(S) == S.height < 0 \/ (S.height > 0 /\ S.width < 0)

\* The rows and columns the loops `for y < height`, `for x < width` visit
\* (1-based), as far as the rows exist.
Rows(grid, S) == 1..Min(Len(grid), S.height)

Cols(S) == 1..S.width

\* for y, for x: grid[y][x] = vals[y][x].  Writing past the end of a row
\* grows the row; rows and cells outside the loops keep their values.
Overwrite(grid, S, vals) ==
    [y \in 1..Len(grid) |->
        IF y \in DOMAIN vals
        THEN [x \in 1..Max(Len(grid[y]), S.width) |->
                 IF x <= S.width THEN vals[y][x] ELSE grid[y][x]]
        ELSE grid[y]]

\* grid[y] is undefined for y >= grid.length: the first access grid[y][x]
\* of such a row throws TypeError.
LoopThrows(grid, S) == S.height > Len(grid) /\ S.width > 0

\* Mutant: the base pass adds to the heights the previous run left.
generateBaseHeightMap_Accumulating(S, perm, hm) ==
    Overwrite(hm, S, [y \in Rows(hm, S) |-> [x \in Cols(S) |->
        FAdd(IF x <= Len(hm[y]) THEN hm[y][x] ELSE NaN,
             FMul(FAdd(fractalNoise2D(perm, x - 1, y - 1, S.baseOctaves,
                                      S.basePersistence, S.baseLacunarity,
                                      S.baseScale), ONE), ONE \div 2))]])

generateBaseHeightMap(S, perm, hm) ==
    Overwrite(hm, S, [y \in Rows(hm, S) |-> [x \in Cols(S) |->
        FMul(FAdd(fractalNoise2D(perm, x - 1, y - 1, S.baseOctaves,
                                 S.basePersistence, S.baseLacunarity,
                                 S.baseScale), ONE), ONE \div 2)]])

addMountains(S, perm, hm) ==
    Overwrite(hm, S, [y \in Rows(hm, S) |-> [x \in Cols(S) |->
        FAdd(FMul(hm[y][x], FSub(ONE, S.mountainWeight)),
             FMul(ridgedNoise2D(perm, x - 1, y - 1, S.mountainOctaves,
                                S.mountainPersistence, S.mountainLacunarity,
                                S.mountainScale),
                  S.mountainWeight))]])

addOceans(S, perm, hm) ==
    Overwrite(hm, S, [y \in Rows(hm, S) |-> [x \in Cols(S) |->
        LET h == hm[y][x]
            oceanDepth == billowNoise2D(perm, x - 1, y - 1, S.oceanOctaves,
                                        S.oceanPersistence, S.oceanLacunarity,
                                        S.oceanScale)
            depthFactor == FDiv(FSub(S.oceanLevel, h), S.oceanLevel)
        IN  IF FLt(h, S.oceanLevel)
            THEN FSub(h, FMul(FMul(oceanDepth, depthFactor), 30))
            ELSE h]])

\* temperatureMap[y][x] of generateClimateData, from the final height
Temperature(S, perm, hm, x, y) ==
    LET latitudeFactor == CosPi(FSub(FDiv(y * ONE, S.height * ONE), ONE \div 2))
        heightFactor == FSub(ONE, hm[y + 1][x + 1])
        temperatureNoise == fractalNoise2D(perm, x, y, 3, 50, 200, S.temperatureScale)
    IN  FAdd(FMul(FAdd(FAdd(FAdd(FMul(latitudeFactor, 60), FMul(heightFactor, 30)),
                            FMul(temperatureNoise, 10)), ONE), ONE \div 2),
             S.temperatureOffset)

\* humidityMap[y][x] of generateClimateData, from the cell's temperature
Humidity(S, perm, tm, x, y) ==
    LET humidityNoise == fractalNoise2D(perm, x + 1000, y + 1000, 3, 50, 200,
                                        S.humidityScale)
    IN  FAdd(FMul(FMul(FAdd(humidityNoise, ONE), ONE \div 2),
                  FSub(ONE, FAbs(FSub(tm[y + 1][x + 1], ONE \div 2)))),
             S.humidityOffset)

\* biomeMap[y][x] of determineBiomes
BiomeOf(S, h, t, u) ==
    LET th == S.heightThresholds
    IN  IF FLt(h, th.deepOcean) THEN 0
        ELSE IF FLt(h, th.ocean) THEN 1
        ELSE IF FLt(h, th.beach) THEN 2
        ELSE IF FLt(h, th.lowland)
             THEN IF FLt(t, 20) THEN 3
                  ELSE IF FLt(t, 40) THEN (IF FLt(u, 50) THEN 4 ELSE 5)
                  ELSE (IF FLt(u, 30) THEN 6 ELSE 7)
        ELSE IF FLt(h, th.hills) THEN 8
        ELSE IF FLt(h, th.mountains) THEN 9
        ELSE 10

\* The events of a generate() that returns, in the order of its emit calls.
GenerateEvents ==
    << "generationStart", "baseHeightMapGenerated", "mountainsGenerated",
       "oceansGenerated", "climateGenerated", "biomesGenerated",
       "generationComplete" >>

\* generate(): the five stages in order, each over the arrays the generator
\* already holds.  The result is the heap after the call, whether the call
\* threw part-way (in the first stage, where the rows are first indexed), and
\* the events emitted.
Generate(S, perm, hp) ==
    IF LoopThrows(hp["heightMap"], S)
    THEN [ heap |-> [hp EXCEPT !["heightMap"] = generateBaseHeightMap(S, perm, @)],
           thrown |-> TRUE, events |-> << "generationStart" >> ]
    ELSE LET hm1 == generateBaseHeightMap(S, perm, hp["heightMap"])
             hm2 == addMountains(S, perm, hm1)
             hm3 == addOceans(S, perm, hm2)
             tm  == Overwrite(hp["temperatureMap"], S,
                        [y \in Rows(hm3, S) |-> [x \in Cols(S) |->
                            Temperature(S, perm, hm3, x - 1, y - 1)]])
             um  == Overwrite(hp["humidityMap"], S,
                        [y \in Rows(hm3, S) |-> [x \in Cols(S) |->
                            Humidity(S, perm, tm, x - 1, y - 1)]])
             bm  == Overwrite(hp["biomeMap"], S,
                        [y \in Rows(hm3, S) |-> [x \in Cols(S) |->
                            BiomeOf(S, hm3[y][x], tm[y][x], um[y][x])]])
         IN  [ heap |-> [ heightMap |-> hm3, temperatureMap |-> tm,
                          humidityMap |-> um, biomeMap |-> bm ],
               thrown |-> FALSE, events |-> GenerateEvents ]

\* const terrainData = { heightMap: this.heightMap, ... }: the generator's own
\* arrays, by reference.
TerrainDataRefs == [r \in Refs |-> r]

\* The cells a caller holding `refs` reads in heap `hp`.
Deref(refs, hp) == [r \in DOMAIN refs |-> hp[refs[r]]]

NoData == [refs |-> TerrainDataRefs, valid |-> FALSE, snap |-> [r \in Refs |-> <<>>]]

NoQuery == [kind |-> "none", x |-> 0, y |-> 0, fn |-> "none", value |-> 0]

\* getHeightAt / getBiomeAt over the array `grid`: 0 outside the bounds the
\* settings give, else grid[y][x] -- a TypeError when row y does not exist,
\* undefined when the row is shorter than x.
PointQuery(fn, grid, S, x, y) ==
    IF x < 0 \/ x >= S.width \/ y < 0 \/ y >= S.height
    THEN [kind |-> "value", x |-> x, y |-> y, fn |-> fn, value |-> 0]
    ELSE IF y + 1 > Len(grid)
    THEN [kind |-> "TypeError", x |-> x, y |-> y, fn |-> fn, value |-> 0]
    ELSE IF x + 1 > Len(grid[y + 1])
    THEN [kind |-> "undefined", x |-> x, y |-> y, fn |-> fn, value |-> 0]
    ELSE [kind |-> "value", x |-> x, y |-> y, fn |-> fn, value |-> grid[y + 1][x + 1]]

TerrainInit ==
    /\ tgStatus = "none"
    /\ settings = DEFAULT_TERRAIN_SETTINGS
    /\ noisePerm = 1
    /\ heap = [r \in Refs |-> <<>>]
    /\ firstData = NoData
    /\ lastData = NoData
    /\ genCount = 0
    /\ updCount = 0
    /\ changedSinceFirst = FALSE
    /\ lastQuery = NoQuery
    /\ lastError = ""
    /\ tgEvents = <<>>

\* new TerrainGenerator(partial)
Construct(partial, perm) ==
    /\ tgStatus = "none"
    /\ lastQuery.fn = "none"
    /\ LET S == Merge(DEFAULT_TERRAIN_SETTINGS, partial)
       IN  /\ settings' = S
           /\ noisePerm' = perm
           /\ IF ConstructorThrows(S)
              THEN /\ tgStatus' = "rejected"
                   /\ lastError' = "RangeError"
                   /\ heap' = heap
              ELSE /\ tgStatus' = "ready"
                   /\ lastError' = ""
                   /\ heap' = [r \in Refs |-> ZeroGrid(S.width, S.height)]
    /\ UNCHANGED <<firstData, lastData, genCount, updCount, changedSinceFirst, lastQuery>>
    /\ UNCHANGED tgEvents
    /\ UNCHANGED <<noiseVars, biomeVars, erosionVars, engineVars, contentVars, timeVars>>

\* generate()
DoGenerate ==
    /\ tgStatus = "ready"
    /\ lastQuery.fn = "none"
    /\ genCount < MaxGenerates
    /\ LET g == Generate(settings, noisePerm, heap)
           data == [refs |-> TerrainDataRefs, valid |-> TRUE,
                    snap |-> Deref(TerrainDataRefs, g.heap)]
       IN  /\ heap' = g.heap
           /\ tgEvents' = g.events
           /\ genCount' = genCount + 1
           /\ IF g.thrown
              THEN /\ lastError' = "TypeError"
                   /\ UNCHANGED <<firstData, lastData, changedSinceFirst>>
              ELSE /\ lastError' = ""
                   /\ lastData' = data
                   /\ firstData' = IF firstData.valid THEN firstData ELSE data
                   /\ changedSinceFirst' = IF firstData.valid THEN changedSinceFirst
                                                               ELSE FALSE
    /\ UNCHANGED <<tgStatus, settings, noisePerm, updCount, lastQuery>>
    /\ UNCHANGED <<noiseVars, biomeVars, erosionVars, engineVars, contentVars, timeVars>>

\* updateSettings(partial)
UpdateSettings(partial) ==
    /\ tgStatus = "ready"
    /\ lastQuery.fn = "none"
    /\ updCount < MaxUpdates
    /\ settings' = Merge(settings, partial)
    /\ updCount' = updCount + 1
    /\ changedSinceFirst' = (changedSinceFirst \/ firstData.valid)
    /\ lastError' = ""
    /\ UNCHANGED <<tgStatus, noisePerm, heap, firstData, lastData, genCount, lastQuery>>
    /\ UNCHANGED tgEvents
    /\ UNCHANGED <<noiseVars, biomeVars, erosionVars, engineVars, contentVars, timeVars>>

\* getHeightAt(x, y)
GetHeightAt(x, y) ==
    /\ tgStatus = "ready"
    /\ lastQuery.fn = "none"
    /\ lastQuery' = PointQuery("getHeightAt", heap["heightMap"], settings, x, y)
    /\ lastError' = IF lastQuery'.kind = "TypeError" THEN "TypeError" ELSE ""
    /\ UNCHANGED <<tgStatus, settings, noisePerm, heap, firstData, lastData,
                   genCount, updCount, changedSinceFirst>>
    /\ UNCHANGED tgEvents
    /\ UNCHANGED <<noiseVars, biomeVars, erosionVars, engineVars, contentVars, timeVars>>

\* getBiomeAt(x, y)
GetBiomeAt(x, y) ==
    /\ tgStatus = "ready"
    /\ lastQuery.fn = "none"
    /\ lastQuery' = PointQuery("getBiomeAt", heap["biomeMap"], settings, x, y)
    /\ lastError' = IF lastQuery'.kind = "TypeError" THEN "TypeError" ELSE ""
    /\ UNCHANGED <<tgStatus, settings, noisePerm, heap, firstData, lastData,
                   genCount, updCount, changedSinceFirst>>
    /\ UNCHANGED tgEvents
    /\ UNCHANGED <<noiseVars, biomeVars, erosionVars, engineVars, contentVars, timeVars>>

\* The point query returns to its caller, which goes on to its next call.
QueryReturn ==
    /\ lastQuery.fn # "none"
    /\ lastQuery' = NoQuery
    /\ UNCHANGED <<tgStatus, settings, noisePerm, heap, firstData, lastData,
                   genCount, updCount, changedSinceFirst, lastError>>
    /\ UNCHANGED tgEvents
    /\ UNCHANGED <<noiseVars, biomeVars, erosionVars, engineVars, contentVars, timeVars>>

TerrainNext ==
    \/ \E w \in DimInputs, h \in DimInputs, k \in Variants, p \in Perms :
          Construct([width |-> w, height |-> h] @@ Variant(k), p)
    \/ DoGenerate
    \/ \E w \in DimInputs : UpdateSettings([width |-> w])
    \/ \E h \in DimInputs : UpdateSettings([height |-> h])
    \/ \E k \in Variants \ {1} : UpdateSettings(Variant(k))
    \/ \E x \in DimInputs, y \in DimInputs : GetHeightAt(x, y)
    \/ \E x \in DimInputs, y \in DimInputs : GetBiomeAt(x, y)
    \/ QueryReturn

\* ---------------------------------------------------- NoiseAlgorithms ----
Instances == 1..2

Seeds == {"seed-a", "seed-b"}

Coords == 0..MaxCoord

\* The <<octaves, persistence, lacunarity, scale>> fractalNoise2D is called
\* with: the base-terrain defaults, a single octave, equal amplitudes on a
\* fine scale, and a steep fall-off.
NumNoiseSettings == 4

NoiseSettings(k) ==
    CASE k = 1 -> << DEFAULT_TERRAIN_SETTINGS.baseOctaves,
                     DEFAULT_TERRAIN_SETTINGS.basePersistence,
                     DEFAULT_TERRAIN_SETTINGS.baseLacunarity,
                     DEFAULT_TERRAIN_SETTINGS.baseScale >>
      [] k = 2 -> << 1, ONE, 2 * ONE, ONE >>
      [] k = 3 -> << 3, ONE, 150, ONE \div 2 >>
      [] k = 4 -> << 2, 25, 3 * ONE, 2 * ONE >>

NoSample == [x |-> 0, y |-> 0, seed |-> "", valid |-> FALSE, value |-> 0, cfg |-> 0]

NoiseInit ==
    /\ na = [i \in Instances |-> [perm |-> 1, seed |-> "", constructed |-> FALSE]]
    /\ naSample = [i \in Instances |-> NoSample]

\* new NoiseAlgorithms(seed): the seed is not used; noise2D = createNoise2D().
NoiseConstruct(i, seed, perm) ==
    /\ ~na[i].constructed
    /\ na' = [na EXCEPT ![i] = [perm |-> perm, seed |-> seed, constructed |-> TRUE]]
    /\ UNCHANGED naSample
    /\ UNCHANGED <<terrainVars, biomeVars, erosionVars, engineVars, contentVars, timeVars>>

\* instance i: fractalNoise2D(x, y, ...) with the k-th noise settings
NoiseSample(i, x, y, k) ==
    /\ na[i].constructed
    /\ naSample' = [naSample EXCEPT ![i] =
           [ x |-> x, y |-> y, seed |-> na[i].seed, valid |-> TRUE,
             value |-> fractalNoise2D(na[i].perm, x, y, NoiseSettings(k)[1],
                          NoiseSettings(k)[2], NoiseSettings(k)[3],
                          NoiseSettings(k)[4]),
             cfg |-> k ]]
    /\ UNCHANGED na
    /\ UNCHANGED <<terrainVars, biomeVars, erosionVars, engineVars, contentVars, timeVars>>

NoiseNext ==
    \/ \E i \in Instances, seed \in Seeds, perm \in Perms : NoiseConstruct(i, seed, perm)
    \/ \E i \in Instances, x \in Coords, y \in Coords, k \in 1..NumNoiseSettings :
          NoiseSample(i, x, y, k)

\* ------------------------------------------------------- BiomeManager ----
DefaultBiome == "PLAINS"

Rule(type, minH, maxH, minT, maxT, minU, maxU, tr) ==
    [ type |-> type, maxHeight |-> maxH, maxHumidity |-> maxU,
      maxTemperature |-> maxT, minHeight |-> minH, minHumidity |-> minU,
      minTemperature |-> minT, transitionRange |-> tr ]

\* The rule tables initializeBiomeRules() registers: table 1 is the one the
\* source ships (DEEP_OCEAN only); the others stand for the "more biome
\* rules" it leaves to be added -- a single full-range rule (2, 3), two rules
\* that tie everywhere (4), two rules with disjoint height bands (5), two
\* overlapping rules (6), a rule with an empty-width band (7), two rules with
\* disjoint height bands and transitionRange 0, no blending (8).
NumTables == 8

RuleTable(k) ==
    CASE k = 1 -> << Rule("DEEP_OCEAN", 0, 20, 0, 20 * ONE, 80, 100, 5) >>
      [] k = 2 -> << Rule("FOREST", 0, ONE, 0, ONE, 0, ONE, 5) >>
      [] k = 3 -> << Rule("PLAINS", 0, ONE, 0, ONE, 0, ONE, 5) >>
      [] k = 4 -> << Rule("FOREST", 0, ONE, 0, ONE, 0, ONE, 5),
                     Rule("DESERT", 0, ONE, 0, ONE, 0, ONE, 5) >>
      [] k = 5 -> << Rule("OCEAN", 0, 40, 0, ONE, 0, ONE, 5),
                     Rule("HILLS", 60, ONE, 0, ONE, 0, ONE, 5) >>
      [] k = 6 -> << Rule("DESERT", 0, ONE, 0, ONE, 0, ONE, 5),
                     Rule("FOREST", 50, ONE, 50, ONE, 50, ONE, 5) >>
      [] k = 7 -> << Rule("BEACH", 50, 50, 0, ONE, 0, ONE, 5),
                     Rule("TUNDRA", 0, ONE, 0, ONE, 0, ONE, 5) >>
      [] k = 8 -> << Rule("SWAMP", 0, 40, 0, ONE, 0, ONE, 0),
                     Rule("MOUNTAINS", 60, ONE, ONE, ONE, 0, ONE, 0) >>

\* <<height, temperature, humidity>> of the cells the input terrains are
\* made of: both ends and the middle of [0, 1], an off-centre value, and the
\* centre of the shipped DEEP_OCEAN rule.
CellTriples ==
    { <<0, 0, 0>>, <<ONE, ONE, ONE>>, <<50, 50, 50>>, <<75, 75, 75>>,
      <<10, 10 * ONE, 90>> }

\* The triples determineBiomeType is called with directly: the cells above,
\* and heights below, inside, at the ends of and above [0, 1] against
\* temperatures and humidities at an end or in the middle.
Probes ==
    CellTriples \cup
    { <<h, t, u>> : h \in {0, 25, 50, ONE, 150}, t \in {0, 50}, u \in {50, ONE} }

\* The coordinates getBiomeAtPosition is called with: just outside and just
\* inside each border.
Positions == {0 - 1, 0, BiomeDim - 1, BiomeDim}

\* A BiomeDim x BiomeDim TerrainData whose left columns hold the cell a and
\* whose right columns hold the cell b.
SplitTerrain(a, b) ==
    LET cell(x) == IF 2 * x <= BiomeDim THEN a ELSE b
        grid(k) == [y \in 1..BiomeDim |-> [x \in 1..BiomeDim |-> cell(x)[k]]]
    IN  [ heightMap |-> grid(1), temperatureMap |-> grid(2), humidityMap |-> grid(3),
          set |-> TRUE ]

NoTerrain == [ heightMap |-> <<>>, temperatureMap |-> <<>>, humidityMap |-> <<>>,
               set |-> FALSE ]

\* Mutant: the distance from the centre is divided by the whole range.
calculateRangeMatch_WholeRange(value, min, max) ==
    IF FLt(value, min) \/ FLt(max, value)
    THEN 0
    ELSE LET center == FDiv(FAdd(min, max), 2 * ONE)
             range == FSub(max, min)
         IN  FSub(ONE, FDiv(FAbs(FSub(value, center)), range))

calculateRangeMatch(value, min, max) ==
    IF FLt(value, min) \/ FLt(max, value)
    THEN 0
    ELSE LET center == FDiv(FAdd(min, max), 2 * ONE)
             range == FSub(max, min)
         IN  FSub(ONE, FDiv(FAbs(FSub(value, center)), FDiv(range, 2 * ONE)))

\* (heightMatch + tempMatch + humidityMatch) / 3
TotalMatch(rules, h, t, u) ==
    FDiv(FAdd(FAdd(calculateRangeMatch(h, rules.minHeight, rules.maxHeight),
                   calculateRangeMatch(t, rules.minTemperature, rules.maxTemperature)),
              calculateRangeMatch(u, rules.minHumidity, rules.maxHumidity)),
         3 * ONE)

\* if (totalMatch > bestMatch)
Better(totalMatch, bestMatch) == FLt(bestMatch, totalMatch)

\* determineBiomeType's loop over the rule table, from
\* bestBiome = PLAINS, bestMatch = 0.
determineBiomeType(table, h, t, u) ==
    LET best[i \in 0..Len(table)] ==
            IF i = 0
            THEN [biome |-> DefaultBiome, match |-> 0]
            ELSE LET totalMatch == TotalMatch(table[i], h, t, u)
                     before == best[i - 1]
                 IN  IF Better(totalMatch, before.match)
                     THEN [biome |-> table[i].type, match |-> totalMatch]
                     ELSE before
    IN  best[Len(table)].biome

\* this.biomeRules.get(type): the index of the rule registered for `type`,
\* 0 for undefined.
RuleIndex(table, type) ==
    IF \E i \in 1..Len(table) : table[i].type = type
    THEN CHOOSE i \in 1..Len(table) : table[i].type = type
    ELSE 0

calculateTransitionValue(value, min1, max1, min2, max2, transitionRange) ==
    LET range1 == FSub(max1, min1)
        range2 == FSub(max2, min2)
        center1 == FDiv(FAdd(min1, max1), 2 * ONE)
        center2 == FDiv(FAdd(min2, max2), 2 * ONE)
        distance == FAbs(FSub(center1, center2))
        maxRange == FDiv(FMax(range1, range2), 2 * ONE)
        num == FSub(distance, maxRange)
        \* num / 0 is +Infinity, -Infinity or NaN: clamped to 1, 0, NaN
        quot == IF transitionRange # 0 THEN FDiv(num, transitionRange)
                ELSE IF ~IsNum(num) \/ num = 0 THEN NaN
                ELSE IF num > 0 THEN ONE ELSE 0
    IN  FMax(0, FMin(ONE, quot))

calculateTransitionFactor(h, t, u, rules, neighborRules) ==
    FMax(FMax(calculateTransitionValue(h, rules.minHeight, rules.maxHeight,
                  neighborRules.minHeight, neighborRules.maxHeight,
                  rules.transitionRange),
              calculateTransitionValue(t, rules.minTemperature, rules.maxTemperature,
                  neighborRules.minTemperature, neighborRules.maxTemperature,
                  rules.transitionRange)),
         calculateTransitionValue(u, rules.minHumidity, rules.maxHumidity,
                  neighborRules.minHumidity, neighborRules.maxHumidity,
                  rules.transitionRange))

\* The cell a classification reads, as <<x, y>> (0-based).
ClassifyAt(table, td, c) ==
    determineBiomeType(table, td.heightMap[c[2] + 1][c[1] + 1],
                       td.temperatureMap[c[2] + 1][c[1] + 1],
                       td.humidityMap[c[2] + 1][c[1] + 1])

GridHeight(td) == Len(td.heightMap)

GridWidth(td) == IF Len(td.heightMap) > 0 THEN Len(td.heightMap[1]) ELSE 0

\* Mutant: a neighbour beyond a border is taken from the opposite border.
NeighborCells_Wrapping(td, x, y) ==
    << <<(x - 1 + GridWidth(td)) % GridWidth(td), y>>,
       <<(x + 1) % GridWidth(td), y>>,
       <<x, (y - 1 + GridHeight(td)) % GridHeight(td)>>,
       <<x, (y + 1) % GridHeight(td)>> >>

\* getNeighborBiomes: the in-grid cells among (x-1,y), (x+1,y), (x,y-1),
\* (x,y+1), in that order.
NeighborCells(td, x, y) ==
    LET directions == << <<x - 1, y>>, <<x + 1, y>>, <<x, y - 1>>, <<x, y + 1>> >>
        inGrid(c) == c[1] >= 0 /\ c[1] < GridWidth(td)
                     /\ c[2] >= 0 /\ c[2] < GridHeight(td)
        kept[i \in 0..4] ==
            IF i = 0 THEN <<>>
            ELSE IF inGrid(directions[i]) THEN Append(kept[i - 1], directions[i])
            ELSE kept[i - 1]
    IN  kept[4]

\* The value generateBiomeTransitions stores for cell (x, y).
TransitionAt(table, td, x, y) ==
    LET biomeType == ClassifyAt(table, td, <<x, y>>)
        r == RuleIndex(table, biomeType)
        nb == NeighborCells(td, x, y)
        factor[i \in 0..Len(nb)] ==
            IF i = 0 THEN 0
            ELSE LET neighborType == ClassifyAt(table, td, nb[i])
                     n == RuleIndex(table, neighborType)
                 IN  IF neighborType # biomeType /\ n # 0
                     THEN FMax(factor[i - 1],
                               calculateTransitionFactor(
                                   td.heightMap[y + 1][x + 1],
                                   td.temperatureMap[y + 1][x + 1],
                                   td.humidityMap[y + 1][x + 1],
                                   table[r], table[n]))
                     ELSE factor[i - 1]
    IN  IF r # 0 THEN factor[Len(nb)] ELSE 0

\* The cells determineBiomeType is called for during generateBiomeTransitions,
\* in call order: per cell in raster order, the cell, then its neighbours.
RECURSIVE ClassifyCalls(_, _)
ClassifyCalls(td, k) ==
    IF k >= GridWidth(td) * GridHeight(td)
    THEN <<>>
    ELSE LET x == k % GridWidth(td)
             y == k \div GridWidth(td)
         IN  << <<x, y>> >> \o NeighborCells(td, x, y) \o ClassifyCalls(td, k + 1)

\* if (this.currentBiome !== bestBiome) { this.currentBiome = bestBiome;
\* emit('biomeChanged', bestBiome) }, over a sequence of results: each call
\* leaves its result cached, so a call notifies when its result differs from
\* the one before it. Yields the cached biome at the end, the number of
\* notifications and the last payload.
\* Mutant: the notification is raised without comparing with the cached biome.
Notify_Always(start, results) ==
    [ biome |-> IF Len(results) = 0 THEN start ELSE results[Len(results)],
      emits |-> Len(results),
      payload |-> IF Len(results) = 0 THEN "" ELSE results[Len(results)] ]

Notify(start, results) ==
    LET before(i) == IF i = 1 THEN start ELSE results[i - 1]
        changed == {i \in 1..Len(results) : results[i] # before(i)}
        last == CHOOSE i \in changed : \A j \in changed : j <= i
    IN  [ biome |-> IF Len(results) = 0 THEN start ELSE results[Len(results)],
          emits |-> Cardinality(changed),
          payload |-> IF changed = {} THEN "" ELSE results[last] ]

Call(fn, h, t, u, x, y, result, prev, n) ==
    [ t |-> t, x |-> x, y |-> y, h |-> h, u |-> u, fn |-> fn, emits |-> n.emits,
      payload |-> n.payload, result |-> result, prev |-> prev ]

NoCall == Call("none", 0, 0, 0, 0, 0, "", "", [emits |-> 0, payload |-> ""])

BiomeInit ==
    /\ bmStatus = "none"
    /\ biomeRules = <<>>
    /\ currentBiome = DefaultBiome
    /\ terrainData = NoTerrain
    /\ transitionBuffer = << <<>> >>
    /\ classGrid = <<>>
    /\ transCalls = 0
    /\ bmCall = NoCall

\* new BiomeManager(contentManager), registering rule table k
BiomeConstruct(k) ==
    /\ bmStatus = "none"
    /\ bmStatus' = "ready"
    /\ biomeRules' = RuleTable(k)
    /\ UNCHANGED <<currentBiome, terrainData, transitionBuffer, classGrid,
                   transCalls, bmCall>>
    /\ UNCHANGED <<terrainVars, noiseVars, erosionVars, engineVars, contentVars, timeVars>>

\* Mutant: the search starts from the cached biome (bestBiome =
\* this.currentBiome), which is returned when no rule scores above 0.
DetermineBiomeType_FromCached(h, t, u) ==
    /\ bmStatus = "ready"
    /\ bmCall.fn = "none"
    /\ LET scored == \E i \in 1..Len(biomeRules) :
                         FLt(0, TotalMatch(biomeRules[i], h, t, u))
           result == IF scored THEN determineBiomeType(biomeRules, h, t, u)
                               ELSE currentBiome
           n == Notify(currentBiome, <<result>>)
       IN  /\ currentBiome' = n.biome
           /\ bmCall' = Call("determineBiomeType", h, t, u, 0, 0, result,
                          currentBiome, n)
    /\ UNCHANGED <<bmStatus, biomeRules, terrainData, transitionBuffer, classGrid,
                   transCalls>>
    /\ UNCHANGED <<terrainVars, noiseVars, erosionVars, engineVars, contentVars, timeVars>>

\* determineBiomeType(height, temperature, humidity)
DetermineBiomeType(h, t, u) ==
    /\ bmStatus = "ready"
    /\ bmCall.fn = "none"
    /\ LET result == determineBiomeType(biomeRules, h, t, u)
           n == Notify(currentBiome, <<result>>)
       IN  /\ currentBiome' = n.biome
           /\ bmCall' = Call("determineBiomeType", h, t, u, 0, 0, result,
                          currentBiome, n)
    /\ UNCHANGED <<bmStatus, biomeRules, terrainData, transitionBuffer, classGrid,
                   transCalls>>
    /\ UNCHANGED <<terrainVars, noiseVars, erosionVars, engineVars, contentVars, timeVars>>

\* getBiomeAtPosition(x, y)
GetBiomeAtPosition(x, y) ==
    /\ bmStatus = "ready"
    /\ bmCall.fn = "none"
    /\ LET inGrid == /\ terrainData.set
                     /\ ~(x < 0 \/ x >= GridWidth(terrainData)
                          \/ y < 0 \/ y >= GridHeight(terrainData))
           result == IF inGrid THEN ClassifyAt(biomeRules, terrainData, <<x, y>>)
                               ELSE DefaultBiome
           n == IF inGrid THEN Notify(currentBiome, <<result>>)
                          ELSE Notify(currentBiome, <<>>)
       IN  /\ currentBiome' = n.biome
           /\ bmCall' = Call("getBiomeAtPosition", 0, 0, 0, x, y, result,
                          currentBiome, n)
    /\ UNCHANGED <<bmStatus, biomeRules, terrainData, transitionBuffer, classGrid,
                   transCalls>>
    /\ UNCHANGED <<terrainVars, noiseVars, erosionVars, engineVars, contentVars, timeVars>>

\* generateBiomeTransitions(terrainData)
GenerateBiomeTransitions(td) ==
    /\ bmStatus = "ready"
    /\ bmCall.fn = "none"
    /\ transCalls < MaxTransitionCalls
    /\ LET calls == ClassifyCalls(td, 0)
           results == [i \in 1..Len(calls) |-> ClassifyAt(biomeRules, td, calls[i])]
           n == Notify(currentBiome, results)
       IN  /\ terrainData' = td
           /\ transitionBuffer' =
                 [y \in 1..GridHeight(td) |-> [x \in 1..GridWidth(td) |->
                     TransitionAt(biomeRules, td, x - 1, y - 1)]]
           /\ classGrid' =
                 [y \in 1..GridHeight(td) |-> [x \in 1..GridWidth(td) |->
                     ClassifyAt(biomeRules, td, <<x - 1, y - 1>>)]]
           /\ currentBiome' = n.biome
           /\ bmCall' = Call("generateBiomeTransitions", 0, 0, 0, 0, 0, "",
                          currentBiome, n)
    /\ transCalls' = transCalls + 1
    /\ UNCHANGED <<bmStatus, biomeRules>>
    /\ UNCHANGED <<terrainVars, noiseVars, erosionVars, engineVars, contentVars, timeVars>>

\* The call returns to its caller, which goes on to its next call.
BiomeReturn ==
    /\ bmCall.fn # "none"
    /\ bmCall' = NoCall
    /\ UNCHANGED <<bmStatus, biomeRules, currentBiome, terrainData, transitionBuffer,
                   classGrid, transCalls>>
    /\ UNCHANGED <<terrainVars, noiseVars, erosionVars, engineVars, contentVars, timeVars>>

BiomeNext ==
    \/ \E k \in 1..NumTables : BiomeConstruct(k)
    \/ \E p \in Probes : DetermineBiomeType(p[1], p[2], p[3])
    \/ \E x \in Positions, y \in Positions : GetBiomeAtPosition(x, y)
    \/ \E a \in CellTriples, b \in CellTriples :
          GenerateBiomeTransitions(SplitTerrain(a, b))
    \/ BiomeReturn

\* --------------------------------------------------- ErosionSimulator ----
\* droplet.volume is kept in millionths: 1.0 is VolumeOne, and the loop runs
\* while it exceeds 0.01.
VolumeOne == 1000000

VolumeMin == VolumeOne \div 100

\* The grids simulate() is called with, EroDim x EroDim: level, rising with
\* x, a single column three units high, level with one NaN cell, and a corner
\* cell 18 units high next to one at 16.8 and one at 0.
GridNames == {"flat", "slope", "peak", "nan", "cliff"}

InputGrid(name) ==
    [y \in 1..EroDim |-> [x \in 1..EroDim |->
        CASE name = "flat" -> ONE \div 2
          [] name = "slope" -> (x - 1) * (ONE \div 2)
          [] name = "peak" -> IF x = 2 /\ y = 2 THEN 3 * ONE ELSE 0
          [] name = "nan" -> IF x = 1 /\ y = 1 THEN NaN ELSE ONE \div 2
          [] name = "cliff" -> IF x = 1 /\ y = 1 THEN 18 * ONE
                               ELSE IF x = 1 /\ y = 2 THEN 1680 ELSE 0]]

\* Values of Math.random() * (width - 1), Math.random() * (height - 1).
SpawnPoints == { <<0, 0>>, <<ONE \div 2, ONE \div 2>>, <<ONE + ONE \div 2, ONE>> }

IterationChoices == {0, 1, MaxDroplets}

\* The constructor's copy of its settings, with its defaults for the rest.
ErosionSettings(width, height, erosionIterations) ==
    [ width |-> width, height |-> height,
      erosionIterations |-> erosionIterations, erosionDeposition |-> 30,
      erosionSmoothness |-> 15, erosionStrength |-> 30 ]

\* Droplets between two 'erosionProgress' notifications.
ProgressEvery == 1000

\* Mutant: the notification follows every ProgressEvery-th droplet.
ProgressDue_AfterEach(i) == (i + 1) % ProgressEvery = 0

\* if (i % 1000 === 0)
ProgressDue(i) == i % ProgressEvery = 0

NoDroplet ==
    [ x |-> 0, y |-> 0, active |-> FALSE, directionX |-> 0,
      directionY |-> 0, sediment |-> 0, speed |-> 0, steps |-> 0, volume |-> 0 ]

NoGrid == [ refs |-> <<>>, valid |-> FALSE, snap |-> <<>> ]

NoOp == [ x |-> 0, y |-> 0, fn |-> "none", before |-> <<>>, amount |-> 0, count |-> 0 ]

\* The grid whose rows have the identities refs.
GridOf(rows, refs) == [y \in 1..Len(refs) |-> rows[refs[y]]]

\* The row store after the rows refs are made to hold grid.
Store(rows, refs, grid) ==
    [r \in 1..Len(rows) |->
        IF \E y \in 1..Len(refs) : refs[y] = r
        THEN grid[CHOOSE y \in 1..Len(refs) : refs[y] = r]
        ELSE rows[r]]

\* The row store after new rows with the contents of grid are allocated,
\* and their identities.
Allocate(rows, grid) ==
    [ refs |-> [y \in 1..Len(grid) |-> Len(rows) + y], rows |-> rows \o grid ]

\* Mutant: this.heightMap = heightMap, the argument itself.
CopyGrid_Aliasing(rows, refs) == [ refs |-> refs, rows |-> rows ]

\* heightMap.map(row => [...row])
CopyGrid(rows, refs) == Allocate(rows, GridOf(rows, refs))

\* cellX < 0 || cellX >= this.width - 1 || cellY < 0 || cellY >= this.height - 1
OutsideCells(S, cellX, cellY) ==
    FLt(cellX, 0) \/ (IsNum(cellX) /\ cellX >= S.width - 1)
    \/ FLt(cellY, 0) \/ (IsNum(cellY) /\ cellY >= S.height - 1)

calculateGradient(hm, S, x, y) ==
    LET cellX == Floor(x)
        cellY == Floor(y)
        fx == x - cellX * ONE
        fy == y - cellY * ONE
        h00 == hm[cellY + 1][cellX + 1]
        h10 == hm[cellY + 1][Min(cellX + 1, S.width - 1) + 1]
        h01 == hm[Min(cellY + 1, S.height - 1) + 1][cellX + 1]
        h11 == hm[Min(cellY + 1, S.height - 1) + 1][Min(cellX + 1, S.width - 1) + 1]
    IN  << FAdd(FMul(FSub(h10, h00), ONE - fy), FMul(FSub(h11, h01), fy)),
           FAdd(FMul(FSub(h01, h00), ONE - fx), FMul(FSub(h11, h10), fx)) >>

getInterpolatedHeight(hm, S, x, y) ==
    LET cellX == Floor(x)
        cellY == Floor(y)
        fx == x - cellX * ONE
        fy == y - cellY * ONE
    IN  IF OutsideCells(S, cellX, cellY) THEN 0
        ELSE FAdd(FAdd(FAdd(FMul(FMul(hm[cellY + 1][cellX + 1], ONE - fx), ONE - fy),
                            FMul(FMul(hm[cellY + 1][cellX + 2], fx), ONE - fy)),
                       FMul(FMul(hm[cellY + 2][cellX + 1], ONE - fx), fy)),
                  FMul(FMul(hm[cellY + 2][cellX + 2], fx), fy))

\* Mutant: a position outside the cells is moved to the nearest cell instead
\* of being ignored.
deposit_Clamping(hm, S, x, y, amount) ==
    LET cellX == Max(0, Min(Floor(x), S.width - 2))
        cellY == Max(0, Min(Floor(y), S.height - 2))
        fx == x - Floor(x) * ONE
        fy == y - Floor(y) * ONE
    IN  [hm EXCEPT
            ![cellY + 1][cellX + 1] = FAdd(@, FMul(FMul(amount, ONE - fx), ONE - fy)),
            ![cellY + 1][cellX + 2] = FAdd(@, FMul(FMul(amount, fx), ONE - fy)),
            ![cellY + 2][cellX + 1] = FAdd(@, FMul(FMul(amount, ONE - fx), fy)),
            ![cellY + 2][cellX + 2] = FAdd(@, FMul(FMul(amount, fx), fy))]

\* deposit(x, y, amount): the grid afterwards
deposit(hm, S, x, y, amount) ==
    LET cellX == Floor(x)
        cellY == Floor(y)
        fx == x - cellX * ONE
        fy == y - cellY * ONE
    IN  IF OutsideCells(S, cellX, cellY) THEN hm
        ELSE [hm EXCEPT
                ![cellY + 1][cellX + 1] = FAdd(@, FMul(FMul(amount, ONE - fx), ONE - fy)),
                ![cellY + 1][cellX + 2] = FAdd(@, FMul(FMul(amount, fx), ONE - fy)),
                ![cellY + 2][cellX + 1] = FAdd(@, FMul(FMul(amount, ONE - fx), fy)),
                ![cellY + 2][cellX + 2] = FAdd(@, FMul(FMul(amount, fx), fy))]

\* erode(x, y, amount): the grid afterwards
erode(hm, S, x, y, amount) ==
    LET cellX == Floor(x)
        cellY == Floor(y)
        fx == x - cellX * ONE
        fy == y - cellY * ONE
    IN  IF OutsideCells(S, cellX, cellY) THEN hm
        ELSE [hm EXCEPT
                ![cellY + 1][cellX + 1] = FSub(@, FMul(FMul(amount, ONE - fx), ONE - fy)),
                ![cellY + 1][cellX + 2] = FSub(@, FMul(FMul(amount, fx), ONE - fy)),
                ![cellY + 2][cellX + 1] = FSub(@, FMul(FMul(amount, ONE - fx), fy)),
                ![cellY + 2][cellX + 2] = FSub(@, FMul(FMul(amount, fx), fy))]

\* Mutant: the product is computed and dropped (`*` for `*=`).
DecayedVolume_Unchanged(volume) == volume

\* droplet.volume *= 0.99
DecayedVolume(volume) == (volume * 99) \div 100

\* droplet.directionX = droplet.directionX * 0.9 + gradient[0] * 0.1, and Y
Steer(d, gradient) ==
    << FAdd(FMul(d.directionX, 90), FMul(gradient[1], 10)),
       FAdd(FMul(d.directionY, 90), FMul(gradient[2], 10)) >>

\* if (len !== 0) { directionX /= len; directionY /= len }
\* The length is rooted before it is rounded, so that it is 0 only for the
\* zero direction, as Math.sqrt gives.
Normalize(direction) ==
    LET sq == direction[1] * direction[1] + direction[2] * direction[2]
        len == IF IsNum(direction[1]) /\ IsNum(direction[2])
               THEN SqrtSearch(sq, 0, Min(sq, 46340))
               ELSE NaN
    IN  IF len # 0 THEN << FDiv(direction[1], len), FDiv(direction[2], len) >>
                   ELSE direction

\* Math.max(-heightDiff, 0.01) * droplet.speed * droplet.volume * erosionStrength
Capacity(S, heightDiff, speed, volume) ==
    FMul(FMul(FMul(FMax(FSub(0, heightDiff), 1), speed),
              volume \div (VolumeOne \div ONE)),
         S.erosionStrength)

\* The deposit-or-erode branch of the loop body, for the droplet d moved to
\* (x, y) with the new speed, volume and capacity.
Exchange(d, hm, S, direction, x, y, heightDiff, speed, volume, capacity) ==
    LET amountToDeposit == FMul(FSub(d.sediment, capacity), S.erosionDeposition)
        amountToErode == FMin(FMul(FSub(capacity, d.sediment), S.erosionStrength),
                              FSub(0, heightDiff))
        deposits == FLt(capacity, d.sediment)
    IN  [ droplet |->
            [ x |-> x, y |-> y, active |-> TRUE,
              directionX |-> direction[1], directionY |-> direction[2],
              sediment |-> IF deposits THEN FSub(d.sediment, amountToDeposit)
                                       ELSE FAdd(d.sediment, amountToErode),
              speed |-> speed, steps |-> d.steps + 1, volume |-> volume ],
          hm |-> IF deposits THEN deposit(hm, S, x, y, amountToDeposit)
                             ELSE erode(hm, S, x, y, amountToErode),
          threw |-> FALSE ]

\* The loop body from "Update speed and volume" on.
Flow(d, hm, S, direction, x, y, heightDiff) ==
    LET speed == FSqrt(FMax(0, FAdd(FMul(d.speed, d.speed), FMul(heightDiff, 981))))
        volume == DecayedVolume(d.volume)
    IN  Exchange(d, hm, S, direction, x, y, heightDiff, speed, volume,
                 Capacity(S, heightDiff, speed, volume))

\* The loop body from "Update position" on: threw when the position became
\* NaN, for getInterpolatedHeight then indexes a row that does not exist.
Move(d, hm, S, direction, x, y) ==
    IF ~IsNum(x) \/ ~IsNum(y)
    THEN [ droplet |-> d, hm |-> hm, threw |-> TRUE ]
    ELSE Flow(d, hm, S, direction, x, y,
              FSub(getInterpolatedHeight(hm, S, x, y),
                   getInterpolatedHeight(hm, S, FSub(x, direction[1]),
                                         FSub(y, direction[2]))))

Advance(d, hm, S, direction) ==
    Move(d, hm, S, direction, FAdd(d.x, direction[1]), FAdd(d.y, direction[2]))

\* One pass of the body of `while (droplet.volume > 0.01)` after its bounds
\* check: the droplet and the grid afterwards, or threw.
DropletBody(d, hm, S) ==
    Advance(d, hm, S, Normalize(Steer(d, calculateGradient(hm, S, d.x, d.y))))

\* The cells calculateGradient(x, y) reads, as <<row, column>> (0-based).
GradientCells(S, x, y) ==
    LET cellX == Floor(x)
        cellY == Floor(y)
    IN  << <<cellY, cellX>>,
           <<cellY, Min(cellX + 1, S.width - 1)>>,
           <<Min(cellY + 1, S.height - 1), cellX>>,
           <<Min(cellY + 1, S.height - 1), Min(cellX + 1, S.width - 1)>> >>

\* The cells getInterpolatedHeight, deposit and erode touch at (x, y): none
\* when their bounds check returns early; at a NaN position every comparison
\* of the check is false and heightMap[NaN] is indexed.
BilinearCells(S, x, y) ==
    LET cellX == Floor(x)
        cellY == Floor(y)
    IN  IF ~IsNum(x) \/ ~IsNum(y) THEN << <<NaN, NaN>> >>
        ELSE IF OutsideCells(S, cellX, cellY) THEN <<>>
        ELSE << <<cellY, cellX>>, <<cellY, cellX + 1>>,
                <<cellY + 1, cellX>>, <<cellY + 1, cellX + 1>> >>

\* The cells one pass of the loop body touches once the droplet has moved to
\* (x, y): oldHeight is read first and throws at a NaN position, then
\* newHeight, then deposit or erode.
MoveCells(S, direction, x, y) ==
    IF ~IsNum(x) \/ ~IsNum(y)
    THEN BilinearCells(S, FSub(x, direction[1]), FSub(y, direction[2]))
    ELSE BilinearCells(S, FSub(x, direction[1]), FSub(y, direction[2]))
         \o BilinearCells(S, x, y) \o BilinearCells(S, x, y)

\* The cells of this.heightMap one pass of the loop body reads or writes.
StepCells(d, hm, S) ==
    LET direction == Normalize(Steer(d, calculateGradient(hm, S, d.x, d.y)))
    IN  GradientCells(S, d.x, d.y)
        \o MoveCells(S, direction, FAdd(d.x, direction[1]), FAdd(d.y, direction[2]))

\* The droplet and the grid stay within the magnitudes followed here.
WithinMagnitude(r) ==
    /\ \A f \in {"directionX", "directionY", "sediment", "speed", "x", "y"} :
          ~IsNum(r.droplet[f]) \/ FAbs(r.droplet[f]) <= MaxMagnitude
    /\ \A y \in 1..Len(r.hm) : \A x \in 1..Len(r.hm[y]) :
          ~IsNum(r.hm[y][x]) \/ FAbs(r.hm[y][x]) <= MaxMagnitude

\* Mutant: at least one thermal pass is always made.
ThermalIterations_AtLeastOne(S) == Max(1, (S.erosionIterations * 20) \div ONE)

\* Math.floor(this.erosionIterations * 0.2)
ThermalIterations(S) == (S.erosionIterations * 20) \div ONE

\* Math.tan(Math.PI * 0.25)
Talus == ONE

\* Mutant: the material taken from the cell is not added to the neighbour.
ThermalCell_OneSided(hm, S, x, y) ==
    LET currentHeight == hm[y + 1][x + 1]
        neighbors == << <<x + 1, y>>, <<x - 1, y>>, <<x, y + 1>>, <<x, y - 1>> >>
        st[i \in 0..4] ==
            IF i = 0 THEN hm
            ELSE LET before == st[i - 1]
                     nx == neighbors[i][1]
                     ny == neighbors[i][2]
                 IN  IF nx >= 0 /\ nx < S.width /\ ny >= 0 /\ ny < S.height
                     THEN LET slope == FSub(currentHeight, before[ny + 1][nx + 1])
                              amount == FMul(FSub(slope, Talus), S.erosionSmoothness)
                          IN  IF FLt(Talus, slope)
                              THEN [before EXCEPT
                                      ![y + 1][x + 1] = FSub(@, FMul(amount, ONE \div 2))]
                              ELSE before
                     ELSE before
    IN  st[4]

\* The inner loops of thermalErosion for the cell (x, y): currentHeight is
\* read once, the four neighbours are visited in the order of the source.
ThermalCell(hm, S, x, y) ==
    LET currentHeight == hm[y + 1][x + 1]
        neighbors == << <<x + 1, y>>, <<x - 1, y>>, <<x, y + 1>>, <<x, y - 1>> >>
        st[i \in 0..4] ==
            IF i = 0 THEN hm
            ELSE LET before == st[i - 1]
                     nx == neighbors[i][1]
                     ny == neighbors[i][2]
                 IN  IF nx >= 0 /\ nx < S.width /\ ny >= 0 /\ ny < S.height
                     THEN LET slope == FSub(currentHeight, before[ny + 1][nx + 1])
                              amount == FMul(FSub(slope, Talus), S.erosionSmoothness)
                          IN  IF FLt(Talus, slope)
                              THEN [before EXCEPT
                                      ![y + 1][x + 1] = FSub(@, FMul(amount, ONE \div 2)),
                                      ![ny + 1][nx + 1] = FAdd(@, FMul(amount, ONE \div 2))]
                              ELSE before
                     ELSE before
    IN  st[4]

\* The transfers of the visit of cell (x, y), in order: for each, the height
\* of the cell and of the receiving neighbour in this.heightMap at the moment
\* the two updates are made.
CellTransfers(hm, S, x, y) ==
    LET currentHeight == hm[y + 1][x + 1]
        neighbors == << <<x + 1, y>>, <<x - 1, y>>, <<x, y + 1>>, <<x, y - 1>> >>
        st[i \in 0..4] ==
            IF i = 0 THEN << hm, <<>> >>
            ELSE LET before == st[i - 1][1]
                     nx == neighbors[i][1]
                     ny == neighbors[i][2]
                 IN  IF nx >= 0 /\ nx < S.width /\ ny >= 0 /\ ny < S.height
                     THEN LET slope == FSub(currentHeight, before[ny + 1][nx + 1])
                              amount == FMul(FSub(slope, Talus), S.erosionSmoothness)
                          IN  IF FLt(Talus, slope)
                              THEN << [before EXCEPT
                                         ![y + 1][x + 1] = FSub(@, FMul(amount, ONE \div 2)),
                                         ![ny + 1][nx + 1] = FAdd(@, FMul(amount, ONE \div 2))],
                                      Append(st[i - 1][2],
                                             << before[y + 1][x + 1], before[ny + 1][nx + 1] >>) >>
                              ELSE st[i - 1]
                     ELSE st[i - 1]
    IN  st[4][2]

\* The transfers of one iteration of thermalErosion's outer loop from cell
\* number k on, in order.
RECURSIVE PassTransfers(_, _, _)
PassTransfers(hm, S, k) ==
    IF S.width < 2 \/ S.height < 2 \/ k >= (S.width - 1) * (S.height - 1)
    THEN <<>>
    ELSE CellTransfers(hm, S, k % (S.width - 1), k \div (S.width - 1))
         \o PassTransfers(ThermalCell(hm, S, k % (S.width - 1), k \div (S.width - 1)),
                          S, k + 1)

\* One iteration of thermalErosion's outer loop: the cells with
\* y < height - 1 and x < width - 1, row by row.
RECURSIVE ThermalFrom(_, _, _)
ThermalFrom(hm, S, k) ==
    IF S.width < 2 \/ S.height < 2 \/ k >= (S.width - 1) * (S.height - 1)
    THEN hm
    ELSE ThermalFrom(ThermalCell(hm, S, k % (S.width - 1), k \div (S.width - 1)), S, k + 1)

ErosionInit ==
    /\ esStatus = "none"
    /\ esSettings = ErosionSettings(0, 0, 0)
    /\ esRows = <<>>
    /\ esHeightMap = <<>>
    /\ esInput = NoGrid
    /\ esFirst = NoGrid
    /\ esLast = NoGrid
    /\ droplet = NoDroplet
    /\ esI = 0
    /\ esIter = 0
    /\ simCount = 0
    /\ spawned = 0
    /\ esError = ""
    /\ esEvents = <<>>
    /\ esOp = NoOp

\* new ErosionSimulator(settings)
ErosionConstruct(S) ==
    /\ esStatus = "none"
    /\ esStatus' = "idle"
    /\ esSettings' = S
    /\ LET a == Allocate(esRows, ZeroGrid(S.width, S.height))
       IN  esRows' = a.rows /\ esHeightMap' = a.refs
    /\ UNCHANGED <<esInput, esFirst, esLast, droplet, esI, esIter, simCount, spawned,
                   esError>>
    /\ UNCHANGED esOp
    /\ UNCHANGED esEvents
    /\ UNCHANGED <<terrainVars, noiseVars, biomeVars, engineVars, contentVars, timeVars>>

\* simulate(heightMap), up to the first droplet, for the rows `rows` with
\* the grid `refs` among them as the argument.
SimulateWith(rows, refs) ==
    /\ LET c == CopyGrid(rows, refs)
       IN  esRows' = c.rows /\ esHeightMap' = c.refs
    /\ esInput' = [ refs |-> refs, valid |-> TRUE, snap |-> GridOf(rows, refs) ]
    /\ esStatus' = "hydraulic"
    /\ esI' = 0
    /\ esIter' = 0
    /\ esError' = ""
    /\ esEvents' = <<>>
    /\ simCount' = simCount + 1
    /\ UNCHANGED <<esSettings, esFirst, esLast, droplet, spawned>>
    /\ UNCHANGED esOp
    /\ UNCHANGED <<terrainVars, noiseVars, biomeVars, engineVars, contentVars, timeVars>>

\* The caller builds the grid `name` and passes it to simulate().
SimulateFresh(name) ==
    /\ esStatus = "idle"
    /\ simCount < MaxSimulates
    /\ LET a == Allocate(esRows, InputGrid(name))
       IN  SimulateWith(a.rows, a.refs)

\* The caller passes the grid the latest simulate() returned.
SimulateReturned ==
    /\ esStatus = "idle"
    /\ simCount < MaxSimulates
    /\ esLast.valid
    /\ SimulateWith(esRows, esLast.refs)

\* const droplet = { x: Math.random() * (this.width - 1), ... }
DropletSpawn(px, py) ==
    /\ esStatus = "hydraulic"
    /\ ~droplet.active
    /\ esI < esSettings.erosionIterations
    /\ spawned' = spawned + 1
    /\ droplet' = [ x |-> px, y |-> py, active |-> TRUE,
                    directionX |-> 0, directionY |-> 0, sediment |-> 0, speed |-> 0,
                    steps |-> 0, volume |-> VolumeOne ]
    /\ UNCHANGED <<esStatus, esSettings, esRows, esHeightMap, esInput, esFirst, esLast,
                   esI, esIter, simCount, esError>>
    /\ UNCHANGED esOp
    /\ UNCHANGED esEvents
    /\ UNCHANGED <<terrainVars, noiseVars, biomeVars, engineVars, contentVars, timeVars>>

\* One iteration of the droplet's while loop that passes the bounds check.
DropletStep ==
    /\ esStatus = "hydraulic"
    /\ droplet.active
    /\ droplet.volume > VolumeMin
    /\ ~OutsideCells(esSettings, Floor(droplet.x), Floor(droplet.y))
    /\ LET r == DropletBody(droplet, GridOf(esRows, esHeightMap), esSettings)
       IN  /\ WithinMagnitude(r)
           /\ IF r.threw
              THEN /\ esStatus' = "idle"
                   /\ esError' = "TypeError"
                   /\ droplet' = NoDroplet
                   /\ UNCHANGED <<esRows, esI>>
              ELSE /\ droplet' = r.droplet
                   /\ esRows' = Store(esRows, esHeightMap, r.hm)
                   /\ UNCHANGED <<esStatus, esError, esI>>
    /\ UNCHANGED <<esSettings, esHeightMap, esInput, esFirst, esLast, esIter, simCount,
                   spawned>>
    /\ UNCHANGED esOp
    /\ UNCHANGED esEvents
    /\ UNCHANGED <<terrainVars, noiseVars, biomeVars, engineVars, contentVars, timeVars>>

\* The while loop ends, by its condition or by the break; the progress
\* notification and the for loop's i++ follow.
DropletEnd ==
    /\ esStatus = "hydraulic"
    /\ droplet.active
    /\ \/ ~(droplet.volume > VolumeMin)
       \/ OutsideCells(esSettings, Floor(droplet.x), Floor(droplet.y))
    /\ droplet' = NoDroplet
    /\ esEvents' = IF ProgressDue(esI)
                   THEN Append(esEvents, <<esI, esSettings.erosionIterations>>)
                   ELSE esEvents
    /\ esI' = esI + 1
    /\ UNCHANGED <<esStatus, esSettings, esRows, esHeightMap, esInput, esFirst, esLast,
                   esIter, simCount, spawned, esError>>
    /\ UNCHANGED esOp
    /\ UNCHANGED <<terrainVars, noiseVars, biomeVars, engineVars, contentVars, timeVars>>

\* hydraulicErosion() returns and thermalErosion() begins.
HydraulicDone ==
    /\ esStatus = "hydraulic"
    /\ ~droplet.active
    /\ ~(esI < esSettings.erosionIterations)
    /\ esStatus' = "thermal"
    /\ UNCHANGED <<esSettings, esRows, esHeightMap, esInput, esFirst, esLast, droplet,
                   esI, esIter, simCount, spawned, esError>>
    /\ UNCHANGED esOp
    /\ UNCHANGED esEvents
    /\ UNCHANGED <<terrainVars, noiseVars, biomeVars, engineVars, contentVars, timeVars>>

\* One iteration of thermalErosion's outer loop.
ThermalPass ==
    /\ esStatus = "thermal"
    /\ esIter < ThermalIterations(esSettings)
    /\ esRows' = Store(esRows, esHeightMap,
                       ThermalFrom(GridOf(esRows, esHeightMap), esSettings, 0))
    /\ esIter' = esIter + 1
    /\ UNCHANGED <<esStatus, esSettings, esHeightMap, esInput, esFirst, esLast, droplet,
                   esI, simCount, spawned, esError>>
    /\ UNCHANGED esOp
    /\ UNCHANGED esEvents
    /\ UNCHANGED <<terrainVars, noiseVars, biomeVars, engineVars, contentVars, timeVars>>

\* return this.heightMap
SimulateReturn ==
    /\ esStatus = "thermal"
    /\ ~(esIter < ThermalIterations(esSettings))
    /\ esStatus' = "idle"
    /\ LET ret == [ refs |-> esHeightMap, valid |-> TRUE,
                    snap |-> GridOf(esRows, esHeightMap) ]
       IN  /\ esLast' = ret
           /\ esFirst' = IF esFirst.valid THEN esFirst ELSE ret
    /\ UNCHANGED <<esSettings, esRows, esHeightMap, esInput, droplet, esI, esIter,
                   simCount, spawned, esError>>
    /\ UNCHANGED esOp
    /\ UNCHANGED esEvents
    /\ UNCHANGED <<terrainVars, noiseVars, biomeVars, engineVars, contentVars, timeVars>>

\* The positions deposit and erode are called at: before the first cell,
\* inside it, inside the last cell that has a right / lower neighbour, on
\* the last column / row, and beyond it.
OpCoords ==
    { 0 - (ONE \div 2), ONE \div 2, (EroDim - 2) * ONE + (ONE \div 2),
      (EroDim - 1) * ONE, (EroDim - 1) * ONE + (ONE \div 2) }

OpAmount == 40

\* deposit(x, y, amount) or erode(x, y, amount) on the grid of the
\* simulate() in progress.
BilinearOp(fn, x, y, amount) ==
    /\ esStatus = "hydraulic"
    /\ ~droplet.active
    /\ esOp.count < MaxOps
    /\ LET hm == GridOf(esRows, esHeightMap)
       IN  /\ esRows' = Store(esRows, esHeightMap,
                              IF fn = "deposit" THEN deposit(hm, esSettings, x, y, amount)
                                                ELSE erode(hm, esSettings, x, y, amount))
           /\ esOp' = [ x |-> x, y |-> y, fn |-> fn,
                        before |-> hm, amount |-> amount, count |-> esOp.count + 1 ]
    /\ UNCHANGED <<esStatus, esSettings, esHeightMap, esInput, esFirst, esLast, droplet,
                   esI, esIter, simCount, spawned, esError>>
    /\ UNCHANGED esEvents
    /\ UNCHANGED <<terrainVars, noiseVars, biomeVars, engineVars, contentVars, timeVars>>

\* The operations of a simulator whose deposit and erode are exercised
\* directly.
BoundaryNext ==
    \/ \E n \in IterationChoices : ErosionConstruct(ErosionSettings(EroDim, EroDim, n))
    \/ \E name \in GridNames : SimulateFresh(name)
    \/ \E fn \in {"deposit", "erode"}, x \in OpCoords, y \in OpCoords :
          BilinearOp(fn, x, y, OpAmount)

\* The droplet counts of the long runs: below, at and above one interval,
\* and above two.
ProgressCounts == {1, ProgressEvery, ProgressEvery + 1, MaxProgress}

\* Long runs are on a grid of one cell, where every droplet leaves the loop
\* at its first bounds check; a short run is on the full grid.
ProgressSettings ==
    { ErosionSettings(1, 1, n) : n \in ProgressCounts }
        \cup { ErosionSettings(EroDim, EroDim, 2) }

\* x: Math.random() * (this.width - 1), y: Math.random() * (this.height - 1)
CanSpawnAt(S, px, py) ==
    /\ px >= 0 /\ px <= Max(0, (S.width - 1) * ONE - 1)
    /\ py >= 0 /\ py <= Max(0, (S.height - 1) * ONE - 1)

\* The operations of a simulator followed for its progress notifications.
ProgressNext ==
    \/ \E S \in ProgressSettings : ErosionConstruct(S)
    \/ \E name \in {"flat", "slope"} : SimulateFresh(name)
    \/ \E p \in SpawnPoints :
          CanSpawnAt(esSettings, p[1], p[2]) /\ DropletSpawn(p[1], p[2])
    \/ DropletStep
    \/ DropletEnd
    \/ HydraulicDone
    \/ ThermalPass
    \/ SimulateReturn

ErosionNext ==
    \/ \E n \in IterationChoices : ErosionConstruct(ErosionSettings(EroDim, EroDim, n))
    \/ \E name \in GridNames : SimulateFresh(name)
    \/ SimulateReturned
    \/ \E p \in SpawnPoints : spawned < MaxDroplets /\ DropletSpawn(p[1], p[2])
    \/ DropletStep
    \/ DropletEnd
    \/ HydraulicDone
    \/ ThermalPass
    \/ SimulateReturn

\* ------------------------------------------------------------ Engine ----
\* 1000 / fps, in hundredths of a millisecond
FrameIntervalOf(fps) == (1000 * ONE) \div fps

\* private _targetFPS: number = 60
DefaultFPS == 60

\* The arguments setTargetFPS() is called with.
FPSChoices == {0, 30, DefaultFPS}

EngineInit ==
    /\ enStatus = "none"
    /\ isRunning = FALSE
    /\ updateInterval = 0
    /\ enTimers = <<>>
    /\ lastFrameTime = 0
    /\ targetFPS = DefaultFPS
    /\ frameInterval = FrameIntervalOf(DefaultFPS)
    /\ enInit = "idle"
    /\ enContentInit = FALSE
    /\ enProcInit = FALSE
    /\ enWeatherInit = FALSE
    /\ enTimeRunning = FALSE
    /\ enUpdates = 0
    /\ enError = ""
    /\ enListening = FALSE

\* The timers that are scheduled: made and not cleared.
ActiveTimers == { k \in 1..Len(enTimers) : enTimers[k] # 0 }

\* clearInterval(id): clearing a timer that is not scheduled does nothing.
ClearInterval(timers, id) ==
    IF id \in 1..Len(timers) THEN [timers EXCEPT ![id] = 0] ELSE timers

\* Engine.getInstance(), the first time
EngineGetInstance ==
    /\ enStatus = "none"
    /\ enStatus' = "ready"
    /\ enListening' = TRUE
    /\ UNCHANGED <<isRunning, updateInterval, enTimers, lastFrameTime, targetFPS,
                   frameInterval, enInit, enContentInit, enProcInit, enWeatherInit,
                   enTimeRunning, enUpdates, enError>>
    /\ UNCHANGED <<terrainVars, noiseVars, biomeVars, erosionVars, contentVars, timeVars>>

\* initialize(), up to its first await: contentManager.initialize() has
\* been called and has not settled.
EngineInitialize ==
    /\ enStatus = "ready"
    /\ enInit = "idle"
    /\ enInit' = "content"
    /\ enError' = ""
    /\ UNCHANGED <<enStatus, isRunning, updateInterval, enTimers, lastFrameTime,
                   targetFPS, frameInterval, enContentInit, enProcInit, enWeatherInit,
                   enTimeRunning, enUpdates>>
    /\ UNCHANGED enListening
    /\ UNCHANGED <<terrainVars, noiseVars, biomeVars, erosionVars, contentVars, timeVars>>

\* initialize() resumes after an await and runs to the next one:
\* contentManager.initialize() settles and proceduralSystem.initialize() is
\* called (it sets its flag before it returns its promise); then
\* weatherSystem.initialize() is called; then it settles and initialize()
\* completes.
EngineInitializeResume ==
    /\ enStatus = "ready"
    /\ enInit # "idle"
    /\ CASE enInit = "content" ->
              /\ enContentInit' = TRUE
              /\ enProcInit' = TRUE
              /\ enInit' = "procedural"
              /\ UNCHANGED enWeatherInit
         [] enInit = "procedural" ->
              /\ enInit' = "weather"
              /\ UNCHANGED <<enContentInit, enProcInit, enWeatherInit>>
         [] OTHER ->
              /\ enWeatherInit' = TRUE
              /\ enInit' = "idle"
              /\ UNCHANGED <<enContentInit, enProcInit>>
    /\ UNCHANGED <<enStatus, isRunning, updateInterval, enTimers, lastFrameTime,
                   targetFPS, frameInterval, enTimeRunning, enUpdates, enError>>
    /\ UNCHANGED enListening
    /\ UNCHANGED <<terrainVars, noiseVars, biomeVars, erosionVars, contentVars, timeVars>>

\* WeatherSystem.start(): if (!this.isInitialized) throw new Error(...)
WeatherStartThrows == ~enWeatherInit

\* ProceduralSystem.start(): if (!this.isInitialized) throw new Error(...)
ProceduralStartThrows == ~enProcInit

\* start() at the time `now`: weatherSystem.start() and
\* proceduralSystem.start() throw when their system is not initialized, and
\* what start() did before the throw stays done.
EngineStart(now) ==
    /\ enStatus = "ready"
    /\ IF isRunning
       THEN /\ enError' = ""
            /\ UNCHANGED <<isRunning, lastFrameTime, enTimeRunning, updateInterval,
                           enTimers>>
       ELSE /\ isRunning' = TRUE
            /\ lastFrameTime' = now
            /\ enTimeRunning' = TRUE
            /\ IF WeatherStartThrows \/ ProceduralStartThrows
               THEN /\ enError' = "Error"
                    /\ UNCHANGED <<updateInterval, enTimers>>
               ELSE /\ enTimers' = Append(enTimers, frameInterval)
                    /\ updateInterval' = Len(enTimers) + 1
                    /\ enError' = ""
    /\ UNCHANGED <<enStatus, targetFPS, frameInterval, enInit, enContentInit, enProcInit,
                   enWeatherInit, enUpdates>>
    /\ UNCHANGED enListening
    /\ UNCHANGED <<terrainVars, noiseVars, biomeVars, erosionVars, contentVars, timeVars>>

\* The body of stop(): what stop() and cleanup() do to the engine.
Stopped ==
    /\ IF ~isRunning
       THEN UNCHANGED <<isRunning, enTimeRunning, updateInterval, enTimers>>
       ELSE /\ isRunning' = FALSE
            /\ enTimeRunning' = FALSE
            /\ IF updateInterval # 0
               THEN /\ enTimers' = ClearInterval(enTimers, updateInterval)
                    /\ updateInterval' = 0
               ELSE UNCHANGED <<updateInterval, enTimers>>
    /\ enError' = ""
    /\ UNCHANGED <<enStatus, lastFrameTime, targetFPS, frameInterval, enInit,
                   enContentInit, enProcInit, enWeatherInit, enUpdates>>
    /\ UNCHANGED <<terrainVars, noiseVars, biomeVars, erosionVars, contentVars, timeVars>>

\* stop()
EngineStop == enStatus = "ready" /\ Stopped /\ UNCHANGED enListening

\* cleanup(): stop(), then the listeners are removed
EngineCleanup == enStatus = "ready" /\ Stopped /\ enListening' = FALSE

\* setTargetFPS(fps)
EngineSetTargetFPS(fps) ==
    /\ enStatus = "ready"
    /\ IF fps > 0
       THEN /\ targetFPS' = fps
            /\ frameInterval' = FrameIntervalOf(fps)
            /\ IF isRunning /\ updateInterval # 0
               THEN /\ enTimers' = Append(ClearInterval(enTimers, updateInterval),
                                          FrameIntervalOf(fps))
                    /\ updateInterval' = Len(enTimers) + 1
               ELSE UNCHANGED <<updateInterval, enTimers>>
       ELSE UNCHANGED <<targetFPS, frameInterval, updateInterval, enTimers>>
    /\ enError' = ""
    /\ UNCHANGED <<enStatus, isRunning, lastFrameTime, enInit, enContentInit, enProcInit,
                   enWeatherInit, enTimeRunning, enUpdates>>
    /\ UNCHANGED enListening
    /\ UNCHANGED <<terrainVars, noiseVars, biomeVars, erosionVars, contentVars, timeVars>>

\* The callback of the scheduled timer k runs at the time `now`.
EngineTick(k, now) ==
    /\ enStatus = "ready"
    /\ k \in ActiveTimers
    /\ lastFrameTime' = now
    /\ enUpdates' = IF isRunning THEN enUpdates + 1 ELSE enUpdates
    /\ UNCHANGED <<enStatus, isRunning, updateInterval, enTimers, targetFPS,
                   frameInterval, enInit, enContentInit, enProcInit, enWeatherInit,
                   enTimeRunning, enError>>
    /\ UNCHANGED enListening
    /\ UNCHANGED <<terrainVars, noiseVars, biomeVars, erosionVars, contentVars, timeVars>>

\* The values Date.now() can return from lastFrameTime on.
EngineTimes == lastFrameTime..MaxEngineTime

EngineNext ==
    \/ EngineGetInstance
    \/ EngineInitialize
    \/ EngineInitializeResume
    \/ \E now \in EngineTimes : Len(enTimers) < MaxTimers /\ EngineStart(now)
    \/ EngineStop
    \/ EngineCleanup
    \/ \E fps \in FPSChoices : Len(enTimers) < MaxTimers /\ EngineSetTargetFPS(fps)
    \/ \E k \in ActiveTimers, now \in EngineTimes :
          enUpdates < MaxEngineUpdates /\ EngineTick(k, now)

\* ---------------------------------------------------- ContentManager ----
ContentInit ==
    /\ cmStatus = "none"
    /\ cmAssets = [id \in 1..NumAssets |-> FALSE]
    /\ cmLoading = [id \in 1..NumAssets |-> FALSE]
    /\ cmTimers = <<>>
    /\ cmUnloaded = [id \in 1..NumAssets |-> FALSE]
    /\ cmEvents = <<>>

\* new ContentManager()
ContentConstruct ==
    /\ cmStatus = "none"
    /\ cmStatus' = "ready"
    /\ UNCHANGED <<cmAssets, cmLoading, cmTimers, cmUnloaded, cmEvents>>
    /\ UNCHANGED <<terrainVars, noiseVars, biomeVars, erosionVars, engineVars, timeVars>>

\* loadAsset(asset) with asset.id = id: the promise of a load in progress is
\* returned, or a timer is set and its promise remembered.
loadAsset(id) ==
    /\ cmStatus = "ready"
    /\ IF cmLoading[id]
       THEN UNCHANGED <<cmLoading, cmTimers>>
       ELSE /\ cmTimers' = Append(cmTimers, <<id, "pending">>)
            /\ cmLoading' = [cmLoading EXCEPT ![id] = TRUE]
    /\ cmUnloaded' = [cmUnloaded EXCEPT ![id] = FALSE]
    /\ UNCHANGED <<cmStatus, cmAssets, cmEvents>>
    /\ UNCHANGED <<terrainVars, noiseVars, biomeVars, erosionVars, engineVars, timeVars>>

\* The callback of the k-th setTimeout() runs.
LoadTimerFires(k) ==
    /\ cmStatus = "ready"
    /\ k \in 1..Len(cmTimers)
    /\ cmTimers[k][2] = "pending"
    /\ cmAssets' = [cmAssets EXCEPT ![cmTimers[k][1]] = TRUE]
    /\ cmEvents' = Append(cmEvents, <<"assetLoaded", cmTimers[k][1]>>)
    /\ cmTimers' = [cmTimers EXCEPT ![k] = <<cmTimers[k][1], "fired">>]
    /\ UNCHANGED <<cmStatus, cmLoading, cmUnloaded>>
    /\ UNCHANGED <<terrainVars, noiseVars, biomeVars, erosionVars, engineVars, timeVars>>

\* unloadAsset(id)
unloadAsset(id) ==
    /\ cmStatus = "ready"
    /\ cmAssets' = [cmAssets EXCEPT ![id] = FALSE]
    /\ cmLoading' = [cmLoading EXCEPT ![id] = FALSE]
    /\ cmEvents' = Append(cmEvents, <<"assetUnloaded", id>>)
    /\ cmUnloaded' = [cmUnloaded EXCEPT ![id] = TRUE]
    /\ UNCHANGED <<cmStatus, cmTimers>>
    /\ UNCHANGED <<terrainVars, noiseVars, biomeVars, erosionVars, engineVars, timeVars>>

\* getAsset(id): TRUE for an asset, FALSE for undefined
getAsset(id) == cmAssets[id]

ContentNext ==
    \/ ContentConstruct
    \/ \E id \in 1..NumAssets :
          Len(cmTimers) < MaxLoads /\ Len(cmEvents) < MaxContentEvents /\ loadAsset(id)
    \/ \E k \in 1..Len(cmTimers) : Len(cmEvents) < MaxContentEvents /\ LoadTimerFires(k)
    \/ \E id \in 1..NumAssets : Len(cmEvents) < MaxContentEvents /\ unloadAsset(id)

\* ------------------------------------------------------- TimeManager ----
\* private readonly MINUTES_PER_DAY = 1440, in thousandths of a minute
MinutesPerDay == 1440 * 1000

\* private readonly REAL_SECONDS_PER_DAY = 240
RealSecondsPerDay == 240

\* One hour, in thousandths of a minute.
Hour == 60 * 1000

TimeInit ==
    /\ tmStatus = "none"
    /\ tmCurrentTime = 0
    /\ tmSpeed = 0
    /\ tmIsPaused = FALSE
    /\ tmElapsed = 0
    /\ tmAck = <<"", FALSE>>

\* new TimeManager(): 6:00, speed 1, not paused, lastUpdate = Date.now()
TimeConstruct ==
    /\ tmStatus = "none"
    /\ tmStatus' = "ready"
    /\ tmCurrentTime' = 360 * 1000
    /\ tmSpeed' = ONE
    /\ tmIsPaused' = FALSE
    /\ tmElapsed' = 0
    /\ UNCHANGED tmAck
    /\ UNCHANGED <<terrainVars, noiseVars, biomeVars, erosionVars, engineVars,
                   contentVars>>

\* Real time passes: d milliseconds.
TimePasses(d) ==
    /\ tmStatus = "ready"
    /\ tmElapsed' = tmElapsed + d
    /\ UNCHANGED <<tmStatus, tmCurrentTime, tmSpeed, tmIsPaused, tmAck>>
    /\ UNCHANGED <<terrainVars, noiseVars, biomeVars, erosionVars, engineVars,
                   contentVars>>

\* deltaTime * (MINUTES_PER_DAY / dayLength) * speed, in thousandths of a
\* minute, for deltaTime = elapsed / 1000 seconds.
DeltaMinutes(elapsed, speed) ==
    (elapsed * (MinutesPerDay \div (RealSecondsPerDay * 1000)) * speed) \div ONE

\* updateGameTime(deltaMinutes): wrap at the day, then Math.round to the
\* nearest hour (halves go up).
updateGameTime(currentTime, deltaMinutes) ==
    LET wrapped == (currentTime + deltaMinutes) % MinutesPerDay
    IN  ((wrapped + Hour \div 2) \div Hour) * Hour

\* update()
TimeUpdate ==
    /\ tmStatus = "ready"
    /\ IF tmIsPaused
       THEN UNCHANGED <<tmCurrentTime, tmElapsed>>
       ELSE /\ tmCurrentTime' = updateGameTime(tmCurrentTime,
                                               DeltaMinutes(tmElapsed, tmSpeed))
            /\ tmElapsed' = 0
    /\ UNCHANGED <<tmStatus, tmSpeed, tmIsPaused, tmAck>>
    /\ UNCHANGED <<terrainVars, noiseVars, biomeVars, erosionVars, engineVars,
                   contentVars>>

\* handleTimeControl(command, data): data.speed and data.time in the units
\* of tmSpeed and tmCurrentTime, NaN for a field that is not given.
handleTimeControl(command, speed, time) ==
    /\ tmStatus = "ready"
    /\ CASE command = "pause" ->
              /\ tmIsPaused' = TRUE
              /\ tmAck' = <<command, TRUE>>
              /\ UNCHANGED <<tmCurrentTime, tmSpeed, tmElapsed>>
         [] command = "play" ->
              /\ tmIsPaused' = FALSE
              /\ tmElapsed' = 0
              /\ tmAck' = <<command, TRUE>>
              /\ UNCHANGED <<tmCurrentTime, tmSpeed>>
         [] command = "setSpeed" ->
              /\ tmSpeed' = IF IsNum(speed) THEN Max(0, speed) ELSE tmSpeed
              /\ tmAck' = <<command, IsNum(speed)>>
              /\ UNCHANGED <<tmCurrentTime, tmIsPaused, tmElapsed>>
         [] OTHER ->
              /\ tmCurrentTime' = IF IsNum(time) THEN time % MinutesPerDay
                                                 ELSE tmCurrentTime
              /\ tmAck' = <<command, IsNum(time)>>
              /\ UNCHANGED <<tmSpeed, tmIsPaused, tmElapsed>>
    /\ UNCHANGED tmStatus
    /\ UNCHANGED <<terrainVars, noiseVars, biomeVars, erosionVars, engineVars,
                   contentVars>>

\* The real time between two events of the clock's model, in milliseconds:
\* a frame's worth and five seconds, the time half an hour of the game takes
\* at speed 1.
Spacings == {1000, 5000}

\* The speeds setSpeed is called with.
SpeedChoices == {NaN, 0, ONE \div 2, 2 * ONE}

\* The times setTime is called with: 1:30 and 12:00.
TimeChoices == {NaN, 90 * 1000, 720 * 1000}

\* update() is called when real time has passed since the call before.
SpacedUpdate == tmElapsed > 0 /\ TimeUpdate

\* Some real time passes, within the span followed.
TimeGoesBy == \E d \in Spacings : tmElapsed + d <= MaxElapsed /\ TimePasses(d)

TimeNext ==
    \/ TimeConstruct
    \/ TimeGoesBy
    \/ SpacedUpdate
    \/ handleTimeControl("pause", NaN, NaN)
    \/ handleTimeControl("play", NaN, NaN)
    \/ \E speed \in SpeedChoices : handleTimeControl("setSpeed", speed, NaN)
    \/ \E time \in TimeChoices : handleTimeControl("setTime", NaN, time)

\* --------------------------------------------------- specifications ----
\* Every specification starts all components as constructed-nothing-yet and
\* runs the operations of one of them.
Init ==
    /\ TerrainInit /\ NoiseInit /\ BiomeInit /\ ErosionInit
    /\ EngineInit /\ ContentInit /\ TimeInit

SpecTerrain == Init /\ [][TerrainNext]_vars

SpecNoise == Init /\ [][NoiseNext]_vars

SpecBiome == Init /\ [][BiomeNext]_vars

SpecErosion == Init /\ [][ErosionNext]_vars

SpecBoundary == Init /\ [][BoundaryNext]_vars

SpecProgress == Init /\ [][ProgressNext]_vars

SpecEngine == Init /\ [][EngineNext]_vars

SpecContent == Init /\ [][ContentNext]_vars

\* Real time always passes, and the owner of the clock calls update() again
\* and again whatever else is called in between (the Engine does from its
\* interval timer).
SpecTime ==
    Init /\ [][TimeNext]_vars /\ WF_vars(TimeGoesBy) /\ SF_vars(SpacedUpdate)

\* ----------------------------------------------------- claims: noise ----
SameCall(a, b) ==
    a.valid /\ b.valid /\ a.seed = b.seed /\ a.x = b.x /\ a.y = b.y /\ a.cfg = b.cfg

\* C1.  Determinism: two generators constructed with the same seed return
\* the same value for the same coordinates and the same noise settings.
C1_SeedDeterminesOutput ==
    \A i, j \in Instances :
        SameCall(naSample[i], naSample[j]) => naSample[i].value = naSample[j].value

\* C19: for valid noise settings (octaves >= 1, persistence in (0,1],
\* lacunarity > 1, scale > 0) and base noise samples in [-1,1], every
\* fractalNoise2D result is a number in [-1,1].
C19_FractalInUnitRange ==
    \A i \in Instances :
        naSample[i].valid =>
            /\ IsNum(naSample[i].value)
            /\ 0 - ONE <= naSample[i].value /\ naSample[i].value <= ONE

\* C19 witness: a sample of several octaves of equal amplitude came out at
\* least 1/2 in magnitude.
C19_Witness ==
    \E i \in Instances :
        /\ naSample[i].valid /\ naSample[i].cfg = 3
        /\ (naSample[i].value >= ONE \div 2 \/ naSample[i].value <= 0 - (ONE \div 2))

\* ------------------------------------------------- claims: generator ----
\* A grid with at least one cell.
NonEmpty(grid) == Len(grid) > 0 /\ Len(grid[1]) > 0

\* C2.  generate() is idempotent: as long as the settings have not been
\* changed since the first generate(), every later generate() returns
\* height, temperature, humidity and biome grids equal to the first call's.
C2_GenerateIdempotent ==
    (firstData.valid /\ ~changedSinceFirst) => lastData.snap = firstData.snap

\* C2 witness: a second generate() on unchanged settings has returned a
\* non-empty set of grids.
C2_Witness ==
    /\ genCount >= 2
    /\ firstData.valid
    /\ ~changedSinceFirst
    /\ lastError = ""
    /\ NonEmpty(lastData.snap["heightMap"])

\* width, height, every scale parameter and every persistence are > 0.
SettingsValid(S) ==
    /\ S.width > 0 /\ S.height > 0
    /\ S.scale > 0 /\ S.baseScale > 0 /\ S.mountainScale > 0 /\ S.oceanScale > 0
    /\ S.temperatureScale > 0 /\ S.humidityScale > 0
    /\ S.basePersistence > 0 /\ S.mountainPersistence > 0 /\ S.oceanPersistence > 0

\* C3.  Configuration validation: a generator that exists (was constructed
\* without an error) holds only valid settings -- positive dimensions, scales
\* and persistences -- at construction and after every updateSettings, so
\* generate() never starts on invalid ones.
C3_InvalidSettingsRejected == tgStatus = "ready" => SettingsValid(settings)

\* C7.  The grids generate() handed out are an immutable snapshot: whatever
\* the generator does later, the arrays the first caller holds still have
\* the cells they had when they were returned.
C7_ReturnedGridsImmutable ==
    firstData.valid => Deref(firstData.refs, heap) = firstData.snap

\* C20: with valid settings, mountainWeight in [0,1] and oceanLevel in (0,1],
\* every cell of the height grid generate() returns lies in [0,1].
C20_HeightsNormalized ==
    ( /\ lastData.valid /\ updCount = 0
      /\ SettingsValid(settings)
      /\ 0 <= settings.mountainWeight /\ settings.mountainWeight <= ONE
      /\ 0 < settings.oceanLevel /\ settings.oceanLevel <= ONE ) =>
        \A y \in 1..Len(lastData.snap["heightMap"]) :
            \A x \in 1..Len(lastData.snap["heightMap"][y]) :
                /\ IsNum(lastData.snap["heightMap"][y][x])
                /\ 0 <= lastData.snap["heightMap"][y][x]
                /\ lastData.snap["heightMap"][y][x] <= ONE

\* (x, y) is outside the array `grid` as it is stored.
OutsideGrid(grid, x, y) ==
    x < 0 \/ y < 0 \/ y + 1 > Len(grid) \/ x + 1 > Len(grid[y + 1])

\* C8.  Point queries never fail: getHeightAt and getBiomeAt answer with a
\* number -- never undefined, never an exception -- and with 0 for every
\* coordinate outside the stored grid.
C8_PointQueriesNeverFail ==
    lastQuery.fn # "none" =>
        /\ lastQuery.kind = "value"
        /\ LET grid == IF lastQuery.fn = "getHeightAt" THEN heap["heightMap"]
                                                       ELSE heap["biomeMap"]
           IN  OutsideGrid(grid, lastQuery.x, lastQuery.y) => lastQuery.value = 0

\* ------------------------------------------------- claims: BiomeManager ----
\* The mean score of the i-th registered rule for the arguments of the
\* determineBiomeType call in progress.
CallScore(i) == TotalMatch(biomeRules[i], bmCall.h, bmCall.t, bmCall.u)

\* C9: determineBiomeType returns the registered rule whose mean of the three
\* per-axis range matches is highest over all registered rules; when several
\* rules share the highest score, the one registered first is returned.
C9_HighestMeanRuleWins ==
    (bmCall.fn = "determineBiomeType" /\ Len(biomeRules) > 0) =>
        \E i \in 1..Len(biomeRules) :
            /\ bmCall.result = biomeRules[i].type
            /\ \A j \in 1..Len(biomeRules) : ~FLt(CallScore(i), CallScore(j))
            /\ \A j \in 1..(i - 1) : CallScore(j) # CallScore(i)

FullRange(r) ==
    /\ r.minHeight = 0 /\ r.maxHeight = ONE
    /\ r.minTemperature = 0 /\ r.maxTemperature = ONE
    /\ r.minHumidity = 0 /\ r.maxHumidity = ONE

InUnitRange(grid) ==
    \A y \in 1..Len(grid) : \A x \in 1..Len(grid[y]) :
        grid[y][x] >= 0 /\ grid[y][x] <= ONE

\* C10: with exactly one rule registered, whose three ranges are each [0,1],
\* every cell of a BiomeDim x BiomeDim terrain with values in [0,1] (values
\* exactly 0 or 1 included) is classified as the same biome, and
\* generateBiomeTransitions yields an all-zero grid.
C10_FullRangeRuleUniform ==
    ( /\ terrainData.set
      /\ Len(biomeRules) = 1 /\ FullRange(biomeRules[1])
      /\ GridWidth(terrainData) = BiomeDim /\ GridHeight(terrainData) = BiomeDim
      /\ InUnitRange(terrainData.heightMap)
      /\ InUnitRange(terrainData.temperatureMap)
      /\ InUnitRange(terrainData.humidityMap) ) =>
        \A y \in 1..BiomeDim : \A x \in 1..BiomeDim :
            /\ classGrid[y][x] = classGrid[1][1]
            /\ transitionBuffer[y][x] = 0

\* The <<value, min, max>> calculateRangeMatch is called with during the
\* determineBiomeType call in progress: per registered rule, one call per axis.
RangeCalls ==
    IF bmCall.fn # "determineBiomeType" THEN {}
    ELSE UNION { { <<bmCall.h, biomeRules[i].minHeight, biomeRules[i].maxHeight>>,
                   <<bmCall.t, biomeRules[i].minTemperature,
                     biomeRules[i].maxTemperature>>,
                   <<bmCall.u, biomeRules[i].minHumidity, biomeRules[i].maxHumidity>> } :
                 i \in 1..Len(biomeRules) }

\* 1 - |v - center| / halfRange, computed without intermediate rounding.
Triangle(v, min, max) ==
    LET twice == 2 * v - (min + max)
    IN  ONE - ((IF twice < 0 THEN 0 - twice ELSE twice) * ONE) \div (max - min)

\* What the claim says of one call c = <<v, min, max>> with result m.
RangeMatchAsClaimed(c, m) ==
    /\ 2 * c[1] = c[2] + c[3] => m = ONE
    /\ (c[1] = c[2] \/ c[1] = c[3]) => m = 0
    /\ (c[1] < c[2] \/ c[1] > c[3]) => m = 0
    /\ (c[2] < c[3] /\ c[2] <= c[1] /\ c[1] <= c[3]) => m = Triangle(c[1], c[2], c[3])

\* C11 as stated: for every min <= max, rangeMatch is 1 at the midpoint, 0 at
\* v = min and at v = max, 0 outside [min, max], and 1 - |v - center| /
\* halfRange inside.
C11_RangeMatchEveryRange ==
    \A c \in RangeCalls :
        c[2] <= c[3] => RangeMatchAsClaimed(c, calculateRangeMatch(c[1], c[2], c[3]))

\* C11 amended: the same for every min < max; for min = max the result is 0
\* for v # min and not a number (0 / 0) for v = min.
C11_RangeMatchTriangular ==
    \A c \in RangeCalls :
        LET m == calculateRangeMatch(c[1], c[2], c[3])
        IN  /\ c[2] < c[3] => RangeMatchAsClaimed(c, m)
            /\ (c[2] = c[3] /\ c[1] # c[2]) => m = 0
            /\ (c[2] = c[3] /\ c[1] = c[2]) => m = NaN

\* C11 witness: one determineBiomeType call scores a value strictly inside a
\* range off its midpoint, a value at a midpoint, a value at a range end and
\* a value outside a range.
C11_Witness ==
    /\ \E c \in RangeCalls : c[2] < c[1] /\ c[1] < c[3] /\ 2 * c[1] # c[2] + c[3]
    /\ \E c \in RangeCalls : c[2] < c[3] /\ 2 * c[1] = c[2] + c[3]
    /\ \E c \in RangeCalls : c[2] < c[3] /\ c[1] = c[2]
    /\ \E c \in RangeCalls : c[1] < c[2] \/ c[1] > c[3]

\* The cells (1-based <<x, y>>) of the classified grid, and whether two of
\* them are axis-neighbours.
GridCells == {<<x, y>> : x \in 1..GridWidth(terrainData), y \in 1..GridHeight(terrainData)}

Adjacent(c, d) ==
    \/ (c[1] = d[1] /\ (c[2] = d[2] + 1 \/ d[2] = c[2] + 1))
    \/ (c[2] = d[2] /\ (c[1] = d[1] + 1 \/ d[1] = c[1] + 1))

ClassOf(c) == classGrid[c[2]][c[1]]

TransitionOf(c) == transitionBuffer[c[2]][c[1]]

\* C12: generateBiomeTransitions yields exactly 0 for every cell all of whose
\* existing axis-neighbours are classified as the same biome as the cell.
C12_UniformNeighbourhoodZero ==
    terrainData.set =>
        \A c \in GridCells :
            (\A d \in GridCells : Adjacent(c, d) => ClassOf(d) = ClassOf(c))
                => TransitionOf(c) = 0

\* C12 witness: a grid with two biomes, a cell on their boundary with a
\* transition above 0 and a border cell whose neighbours all share its biome.
C12_Witness ==
    /\ terrainData.set
    /\ \E c \in GridCells : TransitionOf(c) # 0
    /\ \E c \in GridCells :
          /\ c[1] = 1
          /\ \A d \in GridCells : Adjacent(c, d) => ClassOf(d) = ClassOf(c)
          /\ ClassOf(c) # ClassOf(<<GridWidth(terrainData), c[2]>>)
          /\ RuleIndex(biomeRules, ClassOf(c)) # 0
          /\ RuleIndex(biomeRules, ClassOf(<<GridWidth(terrainData), c[2]>>)) # 0

\* The rule registered for the biome of cell c.
RuleOf(c) == biomeRules[RuleIndex(biomeRules, ClassOf(c))]

HasRule(c) == RuleIndex(biomeRules, ClassOf(c)) # 0

\* [min1, max1] and [min2, max2] have no point in common.
Disjoint(min1, max1, min2, max2) == max1 < min2 \/ max2 < min1

\* The ranges of two rules do not overlap: on some axis they are disjoint.
RangesDisjoint(r, n) ==
    \/ Disjoint(r.minHeight, r.maxHeight, n.minHeight, n.maxHeight)
    \/ Disjoint(r.minTemperature, r.maxTemperature, n.minTemperature, n.maxTemperature)
    \/ Disjoint(r.minHumidity, r.maxHumidity, n.minHumidity, n.maxHumidity)

\* Cell c has an axis-neighbour of a different biome, both biomes have a
\* rule, and the two rules' ranges do not overlap.
OnDisjointBoundary(c) ==
    /\ HasRule(c)
    /\ \E d \in GridCells :
          /\ Adjacent(c, d) /\ ClassOf(d) # ClassOf(c) /\ HasRule(d)
          /\ RangesDisjoint(RuleOf(c), RuleOf(d))

\* C13: generateBiomeTransitions yields a value strictly greater than 0 for
\* every cell that has an axis-neighbour classified as a different biome
\* whose rule ranges do not overlap the ranges of the cell's own biome's rule.
C13_BoundaryPositive ==
    terrainData.set =>
        \A c \in GridCells : OnDisjointBoundary(c) => FLt(0, TransitionOf(c))

\* C18: the grid generateBiomeTransitions returns has the dimensions of the
\* height grid and every cell of it lies in [0, 1], whatever the terrain and
\* the rule table.
C18_TransitionGridInUnitRange ==
    terrainData.set =>
        /\ Len(transitionBuffer) = GridHeight(terrainData)
        /\ \A y \in 1..Len(transitionBuffer) :
              /\ Len(transitionBuffer[y]) = GridWidth(terrainData)
              /\ \A x \in 1..Len(transitionBuffer[y]) :
                    /\ IsNum(transitionBuffer[y][x])
                    /\ 0 <= transitionBuffer[y][x] /\ transitionBuffer[y][x] <= ONE

\* The call in progress ran one classification: determineBiomeType itself,
\* or getBiomeAtPosition for a cell of the terrain.
Classified ==
    \/ bmCall.fn = "determineBiomeType"
    \/ /\ bmCall.fn = "getBiomeAtPosition" /\ terrainData.set
       /\ bmCall.x >= 0 /\ bmCall.x < GridWidth(terrainData)
       /\ bmCall.y >= 0 /\ bmCall.y < GridHeight(terrainData)

\* C14: a classification raises 'biomeChanged' exactly when its winner differs
\* from the cached biome, with the winner as payload, and leaves the winner
\* cached; a classification whose winner is the cached biome, and a call that
\* classifies nothing, raise no notification.
C14_BiomeChangedOnChange ==
    /\ Classified =>
          /\ bmCall.emits = (IF bmCall.result # bmCall.prev THEN 1 ELSE 0)
          /\ bmCall.emits = 1 => bmCall.payload = bmCall.result
          /\ currentBiome = bmCall.result
    /\ (bmCall.fn = "getBiomeAtPosition" /\ ~Classified) =>
          bmCall.emits = 0 /\ currentBiome = bmCall.prev

\* C14 witness: a classification returns the biome an earlier one left
\* cached, a biome other than the initial one, and raises nothing.
C14_Witness ==
    /\ Classified
    /\ bmCall.result = bmCall.prev /\ bmCall.result # DefaultBiome
    /\ bmCall.emits = 0

\* The <<height, temperature, humidity>> of cell c of the terrain.
TripleOf(c) ==
    << terrainData.heightMap[c[2]][c[1]], terrainData.temperatureMap[c[2]][c[1]],
       terrainData.humidityMap[c[2]][c[1]] >>

\* C15: classification is a pure function of its three arguments and the
\* rule table: whatever biome was cached and whatever calls came before, a
\* determineBiomeType call, a getBiomeAtPosition query and the classification
\* generateBiomeTransitions made of a cell agree whenever their height,
\* temperature and humidity agree.
C15_ClassificationPure ==
    terrainData.set =>
        /\ \A c, d \in GridCells : TripleOf(c) = TripleOf(d) => ClassOf(c) = ClassOf(d)
        /\ bmCall.fn = "determineBiomeType" =>
              \A c \in GridCells :
                  TripleOf(c) = <<bmCall.h, bmCall.t, bmCall.u>>
                      => bmCall.result = ClassOf(c)
        /\ (bmCall.fn = "getBiomeAtPosition" /\ Classified) =>
              bmCall.result = ClassOf(<<bmCall.x + 1, bmCall.y + 1>>)

\* C15 witness: determineBiomeType is called with the values of a cell that
\* generateBiomeTransitions classified earlier, with another biome cached
\* than the one it returns and than the initial one.
C15_Witness ==
    /\ terrainData.set /\ bmCall.fn = "determineBiomeType"
    /\ \E c \in GridCells : TripleOf(c) = <<bmCall.h, bmCall.t, bmCall.u>>
    /\ bmCall.prev # bmCall.result /\ bmCall.prev # DefaultBiome
    /\ bmCall.result = DefaultBiome

\* --------------------------------------------- claims: ErosionSimulator ----
\* simulate() has returned, and esInput and esLast are its argument and result.
Returned == esStatus = "idle" /\ esLast.valid /\ esError = ""

\* C4: with erosionIterations = 0 the grid simulate() returns is cell for
\* cell the grid it was given.
C4_ZeroIterationsIdentity ==
    (esSettings.erosionIterations = 0 /\ Returned) => esLast.snap = esInput.snap

\* C4 witness: a second simulate() with erosionIterations = 0 has returned,
\* its argument a grid that a thermal pass would alter.
C4_Witness ==
    /\ esSettings.erosionIterations = 0 /\ Returned
    /\ simCount = 2
    /\ esInput.snap = InputGrid("peak")
    /\ ThermalFrom(esInput.snap, esSettings, 0) # esInput.snap

\* C5: no droplet takes more than 10,000 steps, because every step, moving
\* or not, leaves at most 0.99 of the droplet's volume.
C5_DropletsTerminate ==
    /\ [](droplet.steps <= 10000)
    /\ [][(droplet'.active /\ droplet'.steps = droplet.steps + 1)
            => droplet'.volume * 100 <= droplet.volume * 99]_vars

\* C5 witness: a droplet that never moved has used up its volume.
C5_Witness ==
    /\ droplet.active /\ droplet.steps > 0
    /\ droplet.directionX = 0 /\ droplet.directionY = 0
    /\ ~(droplet.volume > VolumeMin)

RowSet(refs) == {refs[i] : i \in 1..Len(refs)}

\* C6: simulate() leaves its argument as it was, returns a grid that shares
\* no row with it, and never alters a grid an earlier call returned.
C6_NoAliasing ==
    /\ esInput.valid => GridOf(esRows, esInput.refs) = esInput.snap
    /\ Returned => RowSet(esLast.refs) \cap RowSet(esInput.refs) = {}
    /\ esFirst.valid => GridOf(esRows, esFirst.refs) = esFirst.snap

\* C6 witness: a second simulate(), given the grid the first returned, has
\* returned a grid that differs from it.
C6_Witness ==
    /\ Returned /\ simCount = 2
    /\ esInput.refs = esFirst.refs
    /\ esLast.snap # esInput.snap

\* The sum of all cells of a grid.
GridSum(grid) ==
    LET width == IF Len(grid) > 0 THEN Len(grid[1]) ELSE 0
        acc[k \in 0..(Len(grid) * width)] ==
            IF k = 0 THEN 0
            ELSE FAdd(acc[k - 1], grid[((k - 1) \div width) + 1][((k - 1) % width) + 1])
    IN  acc[Len(grid) * width]

\* C16: a thermal pass conserves mass: the sum of all heights after the pass
\* equals the sum before it (every transfer takes from a cell what it gives
\* to an in-grid neighbour, and nothing is exchanged across the grid's edge).
C16_ThermalConservesMass ==
    [][(esStatus = "thermal" /\ esIter' = esIter + 1) =>
          GridSum(GridOf(esRows', esHeightMap'))
              = GridSum(GridOf(esRows, esHeightMap))]_vars

\* C16 witness: the first thermal pass of a simulate() has moved material of
\* the "peak" grid, which the droplets before it left as it was given.
C16_Witness ==
    /\ esStatus = "thermal" /\ esIter = 1
    /\ esInput.snap = InputGrid("peak")
    /\ GridOf(esRows, esHeightMap) = ThermalFrom(esInput.snap, esSettings, 0)
    /\ GridOf(esRows, esHeightMap) # esInput.snap

\* The grid after the latest deposit / erode.
GridNow == GridOf(esRows, esHeightMap)

\* The cell containing the position of the latest deposit / erode is outside
\* [0, W-2] x [0, H-2].
OpOutsideCells ==
    \/ esOp.x < 0 \/ esOp.x >= (esSettings.width - 1) * ONE
    \/ esOp.y < 0 \/ esOp.y >= (esSettings.height - 1) * ONE

\* The position of the latest deposit / erode is less than one cell away from
\* an edge of the grid.
OpNearEdge ==
    \/ esOp.x < ONE \/ esOp.x > (esSettings.width - 2) * ONE
    \/ esOp.y < ONE \/ esOp.y > (esSettings.height - 2) * ONE

\* C17 as stated: a deposit or erode at a position within one cell of the
\* grid edge, or whose containing cell is outside [0,W-2] x [0,H-2], changes
\* no cell of the height grid.
C17_EdgeOpsIgnored ==
    (esOp.fn # "none" /\ (OpNearEdge \/ OpOutsideCells)) => GridNow = esOp.before

\* C17 amended: a deposit or erode at a position whose containing cell is
\* outside [0,W-2] x [0,H-2] changes no cell; at every other position, the
\* ones within one cell of the edge included, it changes the four cells
\* around the position by amounts that add up to `amount`.
C17_OutsideOpsIgnored ==
    esOp.fn # "none" =>
        IF OpOutsideCells
        THEN GridNow = esOp.before
        ELSE /\ GridNow # esOp.before
             /\ GridSum(GridNow) =
                    FAdd(GridSum(esOp.before),
                         IF esOp.fn = "deposit" THEN esOp.amount ELSE 0 - esOp.amount)

\* C17 witness: an erode on the last column, inside the rows that have a
\* lower neighbour, has returned.
C17_Witness ==
    /\ esOp.fn = "erode"
    /\ esOp.x = (esSettings.width - 1) * ONE /\ esOp.y = ONE \div 2
    /\ GridNow = esOp.before /\ esInput.snap = InputGrid("slope")

\* A pass of the droplet's loop body: completed, or ended by an exception.
StepCompleted ==
    droplet.active /\ droplet'.active /\ droplet'.steps = droplet.steps + 1

StepThrew == droplet.active /\ esError = "" /\ esError' # ""

\* The droplet leaves its loop.
DropletTerminates == droplet.active /\ ~droplet'.active

\* volume < 0.01, or the containing cell is outside [0,W-2] x [0,H-2].
Expired(d) ==
    d.volume < VolumeMin \/ OutsideCells(esSettings, Floor(d.x), Floor(d.y))

CellInGrid(c) ==
    /\ IsNum(c[1]) /\ c[1] >= 0 /\ c[1] < Len(esHeightMap)
    /\ IsNum(c[2]) /\ c[2] >= 0 /\ c[2] < Len(GridOf(esRows, esHeightMap)[c[1] + 1])

StepCellsInGrid ==
    LET cells == StepCells(droplet, GridOf(esRows, esHeightMap), esSettings)
    IN  \A i \in 1..Len(cells) : CellInGrid(cells[i])

ThermalPassMade == esStatus = "thermal" /\ esIter' = esIter + 1

\* The visit of the cell (x, y) as C22 describes it: for each of the four
\* axis-neighbours in turn, the slope is the cell's height at that moment
\* minus the neighbour's, and where it exceeds talus, (slope - talus) *
\* smoothness is moved, half taken from the cell and half added to the
\* neighbour.
ClaimedCell(hm, S, x, y) ==
    LET neighbors == << <<x + 1, y>>, <<x - 1, y>>, <<x, y + 1>>, <<x, y - 1>> >>
        st[i \in 0..4] ==
            IF i = 0 THEN hm
            ELSE LET before == st[i - 1]
                     nx == neighbors[i][1]
                     ny == neighbors[i][2]
                 IN  IF nx >= 0 /\ nx < S.width /\ ny >= 0 /\ ny < S.height
                     THEN LET slope == FSub(before[y + 1][x + 1], before[ny + 1][nx + 1])
                              amount == FMul(FSub(slope, Talus), S.erosionSmoothness)
                          IN  IF FLt(Talus, slope)
                              THEN [before EXCEPT
                                      ![y + 1][x + 1] = FSub(@, FMul(amount, ONE \div 2)),
                                      ![ny + 1][nx + 1] = FAdd(@, FMul(amount, ONE \div 2))]
                              ELSE before
                     ELSE before
    IN  st[4]

\* The pass as C22 describes it: the interior cells (those with four
\* neighbours in the grid), row by row, each on the grid the earlier visits
\* left.
RECURSIVE ClaimedFrom(_, _, _)
ClaimedFrom(hm, S, k) ==
    IF S.width < 3 \/ S.height < 3 \/ k >= (S.width - 2) * (S.height - 2)
    THEN hm
    ELSE ClaimedFrom(ClaimedCell(hm, S, 1 + (k % (S.width - 2)), 1 + (k \div (S.width - 2))),
                     S, k + 1)

\* C22: each thermal pass visits every interior cell, and only interior
\* cells, in raster order and in place; for each of the 4 axis-neighbours
\* whose slope exceeds talus = 1 it moves (slope - talus) * smoothness split
\* evenly between the pair, the slope judged against the heights current at
\* that moment.
C22_ThermalPassAsDescribed ==
    [][ ThermalPassMade =>
            GridOf(esRows', esHeightMap')
                = ClaimedFrom(GridOf(esRows, esHeightMap), esSettings, 0) ]_vars

\* A generate() call is made (and returns or throws).
GenerateCalled == genCount' = genCount + 1

\* The climate grids hold, for every cell the loops visit, the values
\* generateClimateData computes from the height grid hm.
ClimateFrom(hp, hm) ==
    \A y \in Rows(hm, settings) : \A x \in Cols(settings) :
        /\ hp["temperatureMap"][y][x] = Temperature(settings, noisePerm, hm, x - 1, y - 1)
        /\ hp["humidityMap"][y][x] =
               Humidity(settings, noisePerm, hp["temperatureMap"], x - 1, y - 1)

\* C23: every generate() call emits generationStart, baseHeightMapGenerated,
\* mountainsGenerated, oceansGenerated, climateGenerated, biomesGenerated and
\* generationComplete once each, in that order; the heights it leaves are
\* the ocean carve of the mountain blend of the base pass, and temperature
\* and humidity are computed from those final heights.
C23_StagesInOrder ==
    [][ GenerateCalled =>
            /\ tgEvents' = GenerateEvents
            /\ heap'["heightMap"] =
                   addOceans(settings, noisePerm,
                       addMountains(settings, noisePerm,
                           generateBaseHeightMap(settings, noisePerm, heap["heightMap"])))
            /\ ClimateFrom(heap', heap'["heightMap"]) ]_vars

\* The notifications so far are those of droplets 0, 1000, 2000, ... of the
\* run, one for each interval begun, with payloads in [0, 1] that never
\* decrease.
ProgressAsClaimed ==
    /\ Len(esEvents) = (esI + ProgressEvery - 1) \div ProgressEvery
    /\ \A k \in 1..Len(esEvents) :
          /\ esEvents[k] = <<(k - 1) * ProgressEvery, esSettings.erosionIterations>>
          /\ esEvents[k][2] > 0
          /\ 0 <= esEvents[k][1] /\ esEvents[k][1] <= esEvents[k][2]
          /\ \A j \in 1..k :
                esEvents[j][1] * esEvents[k][2] <= esEvents[k][1] * esEvents[j][2]

\* An 'erosionProgress' notification is emitted.
ProgressEmitted == Len(esEvents') = Len(esEvents) + 1

\* C24: hydraulic erosion emits 'erosionProgress' once every 1000 droplets
\* (after droplets 0, 1000, 2000, ... of the run), its payloads lie in
\* [0, 1] and never decrease, and emitting leaves every row of the grid as
\* it was.
C24_ProgressEvery1000 ==
    [][ /\ ProgressAsClaimed'
        /\ ProgressEmitted => (esRows' = esRows /\ esHeightMap' = esHeightMap) ]_vars

\* Witness for C24: a run of more than 2000 droplets has emitted its third
\* notification.
C24_Witness ==
    /\ Len(esEvents) = 3
    /\ esEvents[3][1] = 2 * ProgressEvery
    /\ esI > 2 * ProgressEvery

\* C25: the sediment a droplet carries is never negative, after every step
\* of every droplet on every grid.
C25_SedimentNotNegative ==
    droplet.active => (IsNum(droplet.sediment) /\ droplet.sediment >= 0)

\* The material of the simulation: all heights and what the droplet carries.
Material(grid, d) == FAdd(GridSum(grid), d.sediment)

\* Each of the four shares of a deposit or an erode is rounded down by its
\* two multiplications, by less than one unit each.
SplitSlack == 4 * 2

\* C26: hydraulic erosion conserves material: every step of a droplet leaves
\* (the sum of all heights) + (the droplet's sediment) as it was, whether it
\* deposits or erodes, also when the new position is one where deposit and
\* erode do nothing.
C26_MaterialConserved ==
    [][ StepCompleted =>
            LET before == Material(GridOf(esRows, esHeightMap), droplet)
                after == Material(GridOf(esRows', esHeightMap'), droplet')
            IN  /\ IsNum(before) <=> IsNum(after)
                /\ IsNum(before) => FAbs(after - before) <= SplitSlack ]_vars

\* C27: thermal erosion only moves material downhill: at every transfer of a
\* thermal pass the giving cell's height at that moment is strictly greater
\* than the receiving neighbour's height at that moment.
C27_TransfersDownhill ==
    [][ ThermalPassMade =>
            LET transfers == PassTransfers(GridOf(esRows, esHeightMap), esSettings, 0)
            IN  \A k \in 1..Len(transfers) :
                    /\ IsNum(transfers[k][1]) /\ IsNum(transfers[k][2])
                    /\ transfers[k][1] > transfers[k][2] ]_vars

\* ---------------------------------------------------- claims: engine ----
\* C28: in every state the lifecycle calls of the Engine reach, isRunning is
\* true exactly when an update timer is scheduled, and at most one update
\* timer is scheduled.
C28_RunningIffTimer ==
    /\ isRunning <=> (updateInterval \in ActiveTimers)
    /\ Cardinality(ActiveTimers) <= 1

\* --------------------------------------------------- claims: content ----
\* C29: once unloadAsset(id) has returned and no loadAsset(id) was issued
\* after it, getAsset(id) returns undefined in every later state, also when
\* a load of id was pending at the unload.
C29_UnloadedStaysUnloaded ==
    \A id \in 1..NumAssets : cmUnloaded[id] => ~getAsset(id)

\* ----------------------------------------------------- claims: clock ----
\* The clock is constructed, not paused and its speed is positive.
ClockRuns == tmStatus = "ready" /\ ~tmIsPaused /\ tmSpeed > 0

\* C30: while the clock is not paused and its speed is positive, repeated
\* update() calls, however short the positive time between them, advance
\* currentTime again and again: if the clock runs from some moment on for
\* ever, currentTime changes infinitely often.
C30_ClockAdvances ==
    <>[]ClockRuns => []<><<tmCurrentTime' # tmCurrentTime>>_tmCurrentTime

====
